---- MODULE Spec2Model ----
(***************************************************************************)
(* ClawLink API: the durable tables (groups, group_members,                *)
(* group_permissions, messages, message_reactions, direct_messages,        *)
(* dm_conversations, agent_blocks), the socket rooms, and the route        *)
(* handlers that change them.                                              *)
(*                                                                         *)
(* Agent and group ids are UUID strings in the code; they are modelled as  *)
(* positive integers, whose order stands for the string order that         *)
(* getOrCreateConversation compares with "<".  A nullable column holds     *)
(* NULL when it is SQL NULL.                                               *)
(***************************************************************************)
EXTENDS Integers, Sequences, FiniteSets, TLC

\* ---- bounds ----
NumAgents == 3
MaxGroups == 1
MaxSockets == 2
MaxMessages == 2
MaxReactions == 2
MaxTicks == 2
MaxDms == 2
MaxTimer == 2
MaxConvDms == 1
MaxPins == 2
MaxRegistered == 1
MaxInbox == 3

\* ---- program constants ----
NULL == 0
NoRole == "null"
MsPerSecond == 1000
MaxLimit == 100
DefaultLimit == 50

Agents == 1..NumAgents

\* An id no agent row has.
UnknownAgent == NumAgents + 1

GroupIds == 1..(MaxGroups + 1)
Sockets == 1..MaxSockets

\* A text column that is null.
NullText == <<"null">>

\* The agents registered before the first step: texts are sequences of
\* characters, an api key is clk_ followed by its random part, and a claim
\* token is its random part.
InitialAgent(id) ==
  [id |-> id, name |-> "bot", handle |-> [k \in 1..id |-> "a"],
   apiKey |-> <<"clk_", id>>, claimToken |-> id, claimed |-> FALSE,
   claimedBy |-> NullText]

ROLE_HIERARCHY == [admin |-> 3, moderator |-> 2, member |-> 1]

Roles == DOMAIN ROLE_HIERARCHY

DEFAULT_PERMISSIONS ==
  [renameGroup |-> "admin", editDescription |-> "admin", editAvatar |-> "admin",
   deleteGroup |-> "admin", removeMembers |-> "moderator", setRoles |-> "admin",
   inviteMembers |-> "member", pinMessages |-> "moderator",
   deleteAnyMessage |-> "moderator"]

PermissionKeys == DOMAIN DEFAULT_PERMISSIONS

\* The DEFAULT clauses of the group_permissions columns, which fill every
\* column an insert does not name.
PermissionColumnDefaults ==
  [renameGroup |-> "admin", editDescription |-> "admin", editAvatar |-> "admin",
   deleteGroup |-> "admin", removeMembers |-> "moderator", setRoles |-> "admin",
   inviteMembers |-> "member", pinMessages |-> "moderator",
   deleteAnyMessage |-> "moderator"]

\* Request bodies of PUT /:groupId/permissions that the model submits.
PermissionBodies ==
  { [setRoles |-> "member"], [deleteGroup |-> "member"], [setRoles |-> "owner"], [banMembers |-> "admin"] }

VARIABLES
  groups,            \* rows of table groups: set of group ids
  nextGroupId,       \* the next fresh group id
  groupMembers,      \* rows of group_members: [groupId, agentId, role]
  groupPermissions,  \* rows of group_permissions: [groupId, perm]
  messages,          \* rows of messages
  messageReactions,  \* rows of message_reactions: [messageId, agentId, emoji]
  nextMessageId,     \* the next fresh message id
  now,               \* the database clock behind defaultNow()
  socketAgent,       \* socket -> agent id of an attached socket, else NULL
  rooms,             \* socket.io rooms: [kind, id, socket]
  inbox,             \* socket -> the events delivered to it, in order
  sending,           \* message rows inserted whose handler has yet to emit
  directMessages,    \* rows of direct_messages
  nextDmId,          \* the next fresh direct message id
  dmConversations,   \* rows of dm_conversations
  agentBlocks,       \* rows of agent_blocks: [blockerId, blockedId]
  dmReactions,       \* rows of dm_reactions: [messageId, agentId, emoji]
  disappearing,      \* /disappear handlers that have read their conversation
  emitted,           \* what the last DM handler step emitted, in order
  pinnedMessages,    \* rows of pinned_messages: [id, groupId, messageId, pinnedById]
  nextPinId,         \* the next fresh pinned_messages id
  removing,          \* member removals that have passed their checks
  reacting,          \* reaction requests that found no existing row
  pinning,           \* pin requests that found no existing row
  creating,          \* conversation lookups that found no row
  creatingGroup,     \* group creations between their two inserts
  stamped,           \* DM sends that have computed expiresAt
  sweeping,          \* the cleanup pass in progress, if any
  answered,          \* responses sent by the handlers run in steps
  agents,            \* rows of agents: [id, name, handle, apiKey,
                     \*   claimToken, claimed, claimedBy]
  nextAgentId,       \* the next fresh agent id
  agentBadges,       \* rows of agent_badges: [agentId, badgeSlug, awardedBy]
  isOnline,          \* column agents.is_online: the ids whose value is true
  privateGroups,     \* column groups.is_public: the ids whose value is false
  attaching,         \* connection handlers that have yet to finish
  leaving,           \* disconnect handlers that have yet to write
  closed             \* sockets whose connection has ended

groupVars == <<groups, nextGroupId, groupMembers, groupPermissions>>

messageVars == <<messages, messageReactions, nextMessageId, now, sending>>

socketVars == <<socketAgent, rooms>>

dmVars == <<directMessages, nextDmId, dmConversations, agentBlocks,
           dmReactions, disappearing, emitted>>

pinVars == <<pinnedMessages, nextPinId>>

agentVars == <<agents, nextAgentId, isOnline, agentBadges>>

connVars == <<attaching, leaving, closed>>

\* Requests between two awaited statements, and the answers given.
flightVars == <<removing, reacting, pinning, creating, creatingGroup,
               stamped, sweeping, answered>>

vars == <<groupVars, messageVars, socketVars, inbox, dmVars, pinVars,
          flightVars, agentVars,
          connVars, privateGroups>>

\* ---- socket.io: io.to(room).emit and io.emit ----
InRoom(kind, id) ==
  {s \in Sockets : [kind |-> kind, id |-> id, socket |-> s] \in rooms}

Connected == {s \in Sockets : socketAgent[s] # NULL}

Deliver(targets, event) ==
  [s \in Sockets |->
     IF s \in targets THEN Append(inbox[s], event) ELSE inbox[s]]

Event(type, groupId, id, createdAt) ==
  [type |-> type, groupId |-> groupId, id |-> id, createdAt |-> createdAt]

\* ---- utils/permissions.ts ----
hasPermission_GT(userRole, requiredRole) ==
  ROLE_HIERARCHY[userRole] > ROLE_HIERARCHY[requiredRole]

hasPermission(userRole, requiredRole) ==
  ROLE_HIERARCHY[userRole] >= ROLE_HIERARCHY[requiredRole]

canModifyRole_GE(userRole, targetRole) ==
  ROLE_HIERARCHY[userRole] >= ROLE_HIERARCHY[targetRole]

canModifyRole(userRole, targetRole) ==
  ROLE_HIERARCHY[userRole] > ROLE_HIERARCHY[targetRole]

getMemberRole(groupId, agentId) ==
  LET rows == {m \in groupMembers : m.groupId = groupId /\ m.agentId = agentId}
  IN  IF rows = {} THEN NoRole ELSE (CHOOSE m \in rows : TRUE).role

isMember(groupId, agentId) ==
  \E m \in groupMembers : m.groupId = groupId /\ m.agentId = agentId

isAdmin_AnyMember(groupId, agentId) == isMember(groupId, agentId)

isAdmin(groupId, agentId) == getMemberRole(groupId, agentId) = "admin"

getGroupPermissions(groupId) ==
  LET rows == {p \in groupPermissions : p.groupId = groupId}
  IN  IF rows # {} THEN (CHOOSE p \in rows : TRUE).perm ELSE DEFAULT_PERMISSIONS

checkGroupPermission(groupId, agentId, permission) ==
  LET userRole == getMemberRole(groupId, agentId)
      requiredRole == getGroupPermissions(groupId)[permission]
  IN  IF userRole = NoRole
      THEN [allowed |-> FALSE, userRole |-> NoRole,
            requiredRole |-> DEFAULT_PERMISSIONS[permission]]
      ELSE [allowed |-> hasPermission(userRole, requiredRole),
            userRole |-> userRole, requiredRole |-> requiredRole]

\* ---- routes/groups.ts ----
\* POST / : the group row, the creator's admin membership, io.emit.
CreateGroupBody(agentId, isPublic) ==
  /\ groups' = groups \cup {nextGroupId}
  /\ privateGroups' =
       IF isPublic THEN privateGroups ELSE privateGroups \cup {nextGroupId}
  /\ groupMembers' = groupMembers \cup
       {[groupId |-> nextGroupId, agentId |-> agentId, role |-> "admin"]}
  /\ nextGroupId' = nextGroupId + 1
  /\ inbox' = Deliver(Connected, Event("group:created", nextGroupId, NULL, NULL))
  /\ UNCHANGED <<groupPermissions, messageVars, socketVars, agentVars,
                 connVars, dmVars, pinVars, flightVars>>

\* A body without isPublic: the destructuring default is true.
CreateGroup(agentId) == CreateGroupBody(agentId, TRUE)

\* POST /:groupId/join
JoinGroup(agentId, groupId) ==
  /\ groupId \in groups
  /\ ~isMember(groupId, agentId)
  /\ groupMembers' = groupMembers \cup
       {[groupId |-> groupId, agentId |-> agentId, role |-> "member"]}
  /\ inbox' = Deliver(InRoom("group", groupId),
                      Event("member:joined", groupId, agentId, NULL))
  /\ UNCHANGED <<groups, nextGroupId, groupPermissions, messageVars, socketVars, agentVars, connVars, privateGroups, dmVars,
                 pinVars, flightVars>>

\* POST /:groupId/leave
LeaveGroup(agentId, groupId) ==
  /\ isMember(groupId, agentId)
  /\ groupMembers' =
       {m \in groupMembers : ~(m.groupId = groupId /\ m.agentId = agentId)}
  /\ inbox' = Deliver(InRoom("group", groupId),
                      Event("member:left", groupId, agentId, NULL))
  /\ UNCHANGED <<groups, nextGroupId, groupPermissions, messageVars, socketVars, agentVars, connVars, privateGroups, dmVars,
                 pinVars, flightVars>>

\* PUT /:groupId/permissions
UpdatePermissions(agentId, groupId, body) ==
  /\ isAdmin(groupId, agentId)
  /\ \A key \in DOMAIN body :
       /\ key \in PermissionKeys
       /\ body[key] \in Roles
       /\ ~(key = "deleteGroup" /\ body[key] # "admin")
  /\ LET existing == {p \in groupPermissions : p.groupId = groupId}
         old == IF existing # {} THEN (CHOOSE p \in existing : TRUE).perm
                ELSE PermissionColumnDefaults
         new == [k \in PermissionKeys |->
                   IF k \in DOMAIN body THEN body[k] ELSE old[k]]
     IN  groupPermissions' =
           {p \in groupPermissions : p.groupId # groupId}
             \cup {[groupId |-> groupId, perm |-> new]}
  /\ inbox' = Deliver(InRoom("group", groupId),
                      Event("group:permissionsUpdated", groupId, agentId, NULL))
  /\ UNCHANGED <<groups, nextGroupId, groupMembers, messageVars, socketVars, agentVars, connVars, privateGroups, dmVars,
                 pinVars, flightVars>>

\* DELETE /:groupId ; the foreign keys cascade to members, permissions,
\* pins, messages and, through the messages, their reactions.
DeleteGroup(agentId, groupId) ==
  /\ isAdmin(groupId, agentId)
  /\ groupId \in groups
  /\ groups' = groups \ {groupId}
  /\ groupMembers' = {m \in groupMembers : m.groupId # groupId}
  /\ groupPermissions' = {p \in groupPermissions : p.groupId # groupId}
  /\ messages' = {m \in messages : m.groupId # groupId}
  /\ messageReactions' =
       {r \in messageReactions :
          \E m \in messages : m.id = r.messageId /\ m.groupId # groupId}
  /\ pinnedMessages' = {p \in pinnedMessages : p.groupId # groupId}
  /\ inbox' = Deliver(Connected, Event("group:deleted", groupId, agentId, NULL))
  /\ privateGroups' = privateGroups \ {groupId}
  /\ UNCHANGED <<nextGroupId, nextMessageId, now, sending, socketVars,
                 agentVars, connVars, dmVars, nextPinId, flightVars>>

\* DELETE /:groupId/members/:targetAgentId
RemoveMember(agentId, groupId, targetAgentId) ==
  LET perm == checkGroupPermission(groupId, agentId, "removeMembers")
      targetRole == getMemberRole(groupId, targetAgentId)
  IN  /\ targetAgentId # agentId
      /\ perm.allowed
      /\ targetRole # NoRole
      /\ canModifyRole(perm.userRole, targetRole)
      /\ groupMembers' = {m \in groupMembers :
                            ~(m.groupId = groupId /\ m.agentId = targetAgentId)}
      /\ inbox' = Deliver(InRoom("group", groupId),
                          Event("member:removed", groupId, targetAgentId, NULL))
      /\ UNCHANGED <<groups, nextGroupId, groupPermissions, messageVars,
                     socketVars, agentVars, connVars, privateGroups, dmVars, pinVars, flightVars>>

\* DELETE /:groupId/members/:targetAgentId up to the last of its checks: the
\* permission, the target's role and canModifyRole are read, then the
\* handler awaits the target's agent row before it deletes.
RemoveMemberCheck(agentId, groupId, targetAgentId) ==
  LET perm == checkGroupPermission(groupId, agentId, "removeMembers")
      targetRole == getMemberRole(groupId, targetAgentId)
  IN  /\ targetAgentId # agentId
      /\ perm.allowed
      /\ targetRole # NoRole
      /\ canModifyRole(perm.userRole, targetRole)
      /\ removing' = removing \cup
           {[agentId |-> agentId, groupId |-> groupId,
             targetAgentId |-> targetAgentId]}
      /\ UNCHANGED <<groupVars, messageVars, socketVars, agentVars, connVars, privateGroups, inbox, dmVars,
                     pinVars, reacting, pinning, creating, creatingGroup,
                     stamped, sweeping, answered>>

\* DELETE /:groupId/members/:targetAgentId from the delete statement on.
RemoveMemberDelete(req) ==
  /\ req \in removing
  /\ removing' = removing \ {req}
  /\ groupMembers' =
       {m \in groupMembers :
          ~(m.groupId = req.groupId /\ m.agentId = req.targetAgentId)}
  /\ inbox' = Deliver(InRoom("group", req.groupId),
                      Event("member:removed", req.groupId,
                            req.targetAgentId, NULL))
  /\ UNCHANGED <<groups, nextGroupId, groupPermissions, messageVars,
                 socketVars, agentVars, connVars, privateGroups, dmVars, pinVars, reacting, pinning, creating,
                 creatingGroup, stamped, sweeping, answered>>

\* PATCH /:groupId/members/:targetAgentId/role
SetMemberRole(agentId, groupId, targetAgentId, newRole) ==
  LET perm == checkGroupPermission(groupId, agentId, "setRoles")
      targetRole == getMemberRole(groupId, targetAgentId)
  IN  /\ newRole \in Roles
      /\ targetAgentId # agentId
      /\ perm.allowed
      /\ targetRole # NoRole
      /\ canModifyRole(perm.userRole, targetRole)
      /\ canModifyRole(perm.userRole, newRole)
      /\ groupMembers' =
           {m \in groupMembers :
              ~(m.groupId = groupId /\ m.agentId = targetAgentId)}
             \cup {[groupId |-> groupId, agentId |-> targetAgentId,
                    role |-> newRole]}
      /\ inbox' = Deliver(InRoom("group", groupId),
                          Event("member:roleChanged", groupId, targetAgentId, NULL))
      /\ UNCHANGED <<groups, nextGroupId, groupPermissions, messageVars,
                     socketVars, agentVars, connVars, privateGroups, dmVars, pinVars, flightVars>>

\* ---- socket/index.ts ----
\* A handshake with the agent's key, then the connection handler: the socket
\* joins agent:<id> and group:<gid> for each current membership.
SocketConnect(socket, agentId) ==
  /\ socketAgent[socket] = NULL
  /\ socketAgent' = [socketAgent EXCEPT ![socket] = agentId]
  /\ rooms' = rooms
       \cup {[kind |-> "agent", id |-> agentId, socket |-> socket]}
       \cup {[kind |-> "group", id |-> m.groupId, socket |-> socket] :
               m \in {x \in groupMembers : x.agentId = agentId}}
  /\ isOnline' = isOnline \cup {agentId}
  /\ inbox' = Deliver(Connected \ {socket},
                      Event("agent:online", NULL, agentId, NULL))
  /\ UNCHANGED <<groupVars, messageVars, dmVars, pinVars, flightVars,
                 agents, nextAgentId, agentBadges, connVars, privateGroups>>

\* The clock moves on by a second between handler steps.
Tick ==
  /\ now' = now + MsPerSecond
  /\ UNCHANGED <<groupVars, messages, messageReactions, nextMessageId, sending,
                 socketVars, agentVars, connVars, privateGroups, inbox, dmVars, pinVars, flightVars>>

MaxNow == 1 + MaxTicks * MsPerSecond

\* ---- routes/messages.ts ----
Contents == {"hi", "  ", ""}

\* String.prototype.trim on the contents the model submits.
Trim(content) == IF content = "  " THEN "" ELSE content

\* POST /:groupId up to the insert: the row is stored with the database's
\* defaultNow() as createdAt, and the handler awaits the returned row.
SendMessageInsert(agentId, groupId, content, replyToId) ==
  LET row == [id |-> nextMessageId, groupId |-> groupId, agentId |-> agentId,
              content |-> Trim(content), replyToId |-> replyToId,
              createdAt |-> now]
  IN  /\ content # "" /\ Trim(content) # ""
      /\ isMember(groupId, agentId)
      /\ messages' = messages \cup {row}
      /\ nextMessageId' = nextMessageId + 1
      /\ sending' = sending \cup {row}
      /\ UNCHANGED <<groupVars, messageReactions, now, socketVars, agentVars, connVars, privateGroups, inbox,
                     dmVars, pinVars, flightVars>>

\* POST /:groupId after the insert has returned: emit message:new.
SendMessageEmit(row) ==
  /\ row \in sending
  /\ sending' = sending \ {row}
  /\ inbox' = Deliver(InRoom("group", row.groupId),
                      Event("message:new", row.groupId, row.id, row.createdAt))
  /\ UNCHANGED <<groupVars, messages, messageReactions, nextMessageId, now,
                 socketVars, agentVars, connVars, privateGroups, dmVars, pinVars, flightVars>>

\* DELETE /:groupId/:messageId ; reactions cascade with the message.
DeleteMessage(agentId, groupId, messageId) ==
  /\ isMember(groupId, agentId)
  /\ \E message \in messages :
       /\ message.id = messageId /\ message.groupId = groupId
       /\ \/ message.agentId = agentId
          \/ checkGroupPermission(groupId, agentId, "deleteAnyMessage").allowed
  /\ messages' = {m \in messages : m.id # messageId}
  /\ messageReactions' = {r \in messageReactions : r.messageId # messageId}
  /\ pinnedMessages' = {p \in pinnedMessages : p.messageId # messageId}
  /\ inbox' = Deliver(InRoom("group", groupId),
                      Event("message:deleted", groupId, messageId, NULL))
  /\ UNCHANGED <<groupVars, nextMessageId, now, sending, socketVars, agentVars, connVars, privateGroups, dmVars,
                 nextPinId, flightVars>>

\* The four emojis, written by name: thumbs up, red heart, angry face,
\* crying face.
ALLOWED_REACTIONS ==
  [like |-> "thumbs_up", love |-> "red_heart", angry |-> "angry_face",
   sad |-> "crying_face"]

Undefined == "undefined"

\* `type in ALLOWED_REACTIONS` also holds for the names every object
\* inherits, whose .emoji is undefined.
InheritedKeys == {"constructor"}

ReactionEmoji(type) ==
  IF type \in DOMAIN ALLOWED_REACTIONS THEN ALLOWED_REACTIONS[type]
  ELSE Undefined

\* Reaction types the model submits.
ReactionTypes == {"like", "sad", "laugh", "constructor", ""}

\* POST /:groupId/:messageId/reactions ; emoji is a NOT NULL column, so an
\* insert without it fails and the handler answers 500.
AddReaction(agentId, groupId, messageId, type) ==
  LET emoji == ReactionEmoji(type)
  IN  /\ type # "" /\ type \in DOMAIN ALLOWED_REACTIONS \cup InheritedKeys
      /\ isMember(groupId, agentId)
      /\ \E message \in messages :
           message.id = messageId /\ message.groupId = groupId
      /\ [messageId |-> messageId, agentId |-> agentId, emoji |-> emoji]
           \notin messageReactions
      /\ emoji # Undefined
      /\ messageReactions' = messageReactions \cup
           {[messageId |-> messageId, agentId |-> agentId, emoji |-> emoji]}
      /\ inbox' = Deliver(InRoom("group", groupId),
                          Event("message:reaction:added", groupId, messageId, NULL))
      /\ UNCHANGED <<groupVars, messages, nextMessageId, now, sending,
                     socketVars, agentVars, connVars, privateGroups, dmVars, pinVars, flightVars>>

\* Responses, by HTTP status.
Answer(route, agentId, subject, status) ==
  [route |-> route, agentId |-> agentId, subject |-> subject,
   status |-> status]

\* POST /:groupId/:messageId/reactions up to the select that looks for the
\* caller's reaction; slot tells apart requests that are otherwise equal.
AddReactionCheck(slot, agentId, groupId, messageId, type) ==
  LET emoji == ReactionEmoji(type)
      reaction == [messageId |-> messageId, agentId |-> agentId,
                   emoji |-> emoji]
  IN  /\ type # "" /\ type \in DOMAIN ALLOWED_REACTIONS \cup InheritedKeys
      /\ isMember(groupId, agentId)
      /\ \E message \in messages :
           message.id = messageId /\ message.groupId = groupId
      /\ IF reaction \in messageReactions
         THEN /\ answered' = answered \cup
                   {Answer("reaction", agentId, reaction, 400)}
              /\ UNCHANGED reacting
         ELSE /\ reacting' = reacting \cup
                   {[slot |-> slot, agentId |-> agentId, groupId |-> groupId,
                     reaction |-> reaction]}
              /\ UNCHANGED answered
      /\ UNCHANGED <<groupVars, messageVars, socketVars, agentVars, connVars, privateGroups, inbox, dmVars,
                     pinVars, removing, pinning, creating, creatingGroup,
                     stamped, sweeping>>

\* POST /:groupId/:messageId/reactions from the insert on.  The insert
\* fails on UNIQUE(message_id, agent_id, emoji), on the foreign key to the
\* message and on the NOT NULL emoji; the catch block answers 500.
AddReactionInsert(req) ==
  /\ req \in reacting
  /\ reacting' = reacting \ {req}
  /\ IF \/ req.reaction \in messageReactions
        \/ ~\E message \in messages : message.id = req.reaction.messageId
        \/ req.reaction.emoji = Undefined
     THEN /\ answered' = answered \cup
               {Answer("reaction", req.agentId, req.reaction, 500)}
          /\ UNCHANGED <<messageReactions, inbox>>
     ELSE /\ messageReactions' = messageReactions \cup {req.reaction}
          /\ inbox' = Deliver(InRoom("group", req.groupId),
                              Event("message:reaction:added", req.groupId,
                                    req.reaction.messageId, NULL))
          /\ answered' = answered \cup
               {Answer("reaction", req.agentId, req.reaction, 200)}
  /\ UNCHANGED <<groupVars, messages, nextMessageId, now, sending, socketVars, agentVars, connVars, privateGroups,
                 dmVars, pinVars, removing, pinning, creating, creatingGroup,
                 stamped, sweeping>>

\* DELETE /:groupId/:messageId/reactions/:emoji
RemoveReaction(agentId, groupId, messageId, emoji) ==
  /\ isMember(groupId, agentId)
  /\ messageReactions' = messageReactions \
       {[messageId |-> messageId, agentId |-> agentId, emoji |-> emoji]}
  /\ inbox' = Deliver(InRoom("group", groupId),
                      Event("message:reaction:removed", groupId, messageId, NULL))
  /\ UNCHANGED <<groupVars, messages, nextMessageId, now, sending, socketVars, agentVars, connVars, privateGroups, dmVars,
                 pinVars, flightVars>>

\* ---- routes/dm.ts ----
\* io.to(`agent:<id>`).emit(type, payload), kept in order.
DmEvent(to, type, agentId, arg) ==
  [to |-> to, event |-> [type |-> type, agentId |-> agentId, arg |-> arg]]

RECURSIVE DeliverSeq(_, _)
DeliverSeq(box, emits) ==
  IF emits = <<>> THEN box
  ELSE DeliverSeq(
         [s \in Sockets |->
            IF s \in InRoom("agent", Head(emits).to)
            THEN Append(box[s], Head(emits).event) ELSE box[s]],
         Tail(emits))

\* A dm_conversations row as the insert in getOrCreateConversation leaves it:
\* every other column takes its default.
NewConversation(id1, id2) ==
  [agent1Id |-> id1, agent2Id |-> id2,
   disappearTimer |-> NULL, disappearTimerSetBy |-> NULL,
   disappearTimerPendingApproval |-> FALSE,
   disappearTimerProposedValue |-> NULL, disappearTimerProposedBy |-> NULL,
   agent1ClearedAt |-> NULL, agent2ClearedAt |-> NULL]

\* The row for the pair, smaller id first; the existing one if there is one.
getOrCreateConversation(agent1Id, agent2Id) ==
  LET id1 == IF agent1Id < agent2Id THEN agent1Id ELSE agent2Id
      id2 == IF agent1Id < agent2Id THEN agent2Id ELSE agent1Id
      existing == {c \in dmConversations :
                     c.agent1Id = id1 /\ c.agent2Id = id2}
  IN  IF existing # {} THEN CHOOSE c \in existing : TRUE
      ELSE NewConversation(id1, id2)

\* conv.id: the row is found again by its pair, which is unique.
SameConversation(c, conv) ==
  c.agent1Id = conv.agent1Id /\ c.agent2Id = conv.agent2Id

isBlocked(blockerId, blockedId) ==
  [blockerId |-> blockerId, blockedId |-> blockedId] \in agentBlocks

\* The rows GET /:agentId answers with: the pair's messages in both
\* directions, without those older than the caller's cleared timestamp and
\* without the expired ones.
conversation(myAgentId, targetAgentId) ==
  LET conv == getOrCreateConversation(myAgentId, targetAgentId)
      amAgent1 == myAgentId < targetAgentId
      myClearedAt == IF amAgent1 THEN conv.agent1ClearedAt
                     ELSE conv.agent2ClearedAt
  IN  {msg \in directMessages :
         /\ \/ msg.fromAgentId = myAgentId /\ msg.toAgentId = targetAgentId
            \/ msg.fromAgentId = targetAgentId /\ msg.toAgentId = myAgentId
         /\ ~(myClearedAt # NULL /\ msg.createdAt < myClearedAt)
         /\ ~(msg.expiresAt # NULL /\ msg.expiresAt < now)}

\* The payload of GET /:agentId: each row of the conversation with its
\* reactions and the preview of the message it replies to.  The default
\* limit of 50 is above the number of messages stored here.
ListDMPayload(myAgentId, targetAgentId) ==
  {[id |-> msg.id, content |-> msg.content, replyToId |-> msg.replyToId,
    read |-> msg.read, createdAt |-> msg.createdAt,
    fromAgentId |-> msg.fromAgentId, toAgentId |-> msg.toAgentId,
    encrypted |-> msg.encrypted, expiresAt |-> msg.expiresAt,
    reactions |-> {[emoji |-> r.emoji, agentId |-> r.agentId] :
                     r \in {x \in dmReactions : x.messageId = msg.id}},
    replyTo |-> {[id |-> m.id, content |-> m.content,
                  fromAgentId |-> m.fromAgentId] :
                   m \in {x \in directMessages : x.id = msg.replyToId}}] :
     msg \in conversation(myAgentId, targetAgentId)}

\* GET /:agentId ; the messages the target sent to the caller become read.
ListDM(myAgentId, targetAgentId) ==
  LET conv == getOrCreateConversation(myAgentId, targetAgentId)
  IN  /\ targetAgentId \in Agents
      /\ dmConversations' = dmConversations \cup {conv}
      /\ directMessages' =
           {IF m.fromAgentId = targetAgentId /\ m.toAgentId = myAgentId
            THEN [m EXCEPT !.read = TRUE] ELSE m : m \in directMessages}
      /\ emitted' = <<>>
      /\ UNCHANGED <<groupVars, messageVars, socketVars, agentVars, connVars, privateGroups, inbox, nextDmId,
                     agentBlocks, dmReactions, disappearing,
                     pinVars, flightVars>>

\* POST /:agentId ; the conversation row is created before the reply is
\* validated, so a rejected reply still leaves the row behind.
SendDM(myAgentId, targetAgentId, content, replyToId) ==
  LET conv == getOrCreateConversation(myAgentId, targetAgentId)
      expiresAt ==
        IF conv.disappearTimer # NULL /\ ~conv.disappearTimerPendingApproval
        THEN now + conv.disappearTimer * MsPerSecond ELSE NULL
      replyFound ==
        \E replyMsg \in directMessages :
          /\ replyMsg.id = replyToId
          /\ \/ replyMsg.fromAgentId = myAgentId
                  /\ replyMsg.toAgentId = targetAgentId
             \/ replyMsg.fromAgentId = targetAgentId
                  /\ replyMsg.toAgentId = myAgentId
      newDm == [id |-> nextDmId, fromAgentId |-> myAgentId,
                toAgentId |-> targetAgentId, content |-> Trim(content),
                replyToId |-> replyToId, read |-> FALSE, encrypted |-> FALSE,
                expiresAt |-> expiresAt, createdAt |-> now]
      emits == <<DmEvent(targetAgentId, "dm:new", myAgentId, nextDmId)>>
  IN  /\ content # "" /\ Trim(content) # ""
      /\ targetAgentId \in Agents
      /\ targetAgentId # myAgentId
      /\ ~isBlocked(targetAgentId, myAgentId)
      /\ dmConversations' = dmConversations \cup {conv}
      /\ IF replyToId = NULL \/ replyFound
         THEN /\ directMessages' = directMessages \cup {newDm}
              /\ nextDmId' = nextDmId + 1
              /\ emitted' = emits
              /\ inbox' = DeliverSeq(inbox, emits)
         ELSE /\ emitted' = <<>>
              /\ UNCHANGED <<directMessages, nextDmId, inbox>>
      /\ UNCHANGED <<groupVars, messageVars, socketVars, agentVars, connVars, privateGroups, agentBlocks,
                     dmReactions, disappearing, pinVars, flightVars>>

\* POST /block/:agentId
BlockAgent(myAgentId, targetAgentId) ==
  LET emits == <<DmEvent(targetAgentId, "dm:blocked", myAgentId, NULL)>>
  IN  /\ targetAgentId # myAgentId
      /\ targetAgentId \in Agents
      /\ ~isBlocked(myAgentId, targetAgentId)
      /\ agentBlocks' = agentBlocks \cup
           {[blockerId |-> myAgentId, blockedId |-> targetAgentId]}
      /\ emitted' = emits
      /\ inbox' = DeliverSeq(inbox, emits)
      /\ UNCHANGED <<groupVars, messageVars, socketVars, agentVars, connVars, privateGroups, directMessages,
                     nextDmId, dmConversations, dmReactions, disappearing,
                     pinVars, flightVars>>

\* DELETE /block/:agentId
UnblockAgent(myAgentId, targetAgentId) ==
  /\ agentBlocks' = agentBlocks \
       {[blockerId |-> myAgentId, blockedId |-> targetAgentId]}
  /\ emitted' = <<>>
  /\ UNCHANGED <<groupVars, messageVars, socketVars, agentVars, connVars, privateGroups, inbox, directMessages,
                 nextDmId, dmConversations, dmReactions, disappearing,
                 pinVars, flightVars>>

\* POST /:messageId/reactions ; dm.ts keeps its own ALLOWED_REACTIONS with
\* the same four emojis.
AddDmReaction(myAgentId, messageId, type) ==
  LET emoji == ReactionEmoji(type)
      reaction == [messageId |-> messageId, agentId |-> myAgentId,
                   emoji |-> emoji]
  IN  /\ type # "" /\ type \in DOMAIN ALLOWED_REACTIONS \cup InheritedKeys
      /\ \E message \in directMessages :
           /\ message.id = messageId
           /\ message.fromAgentId = myAgentId \/ message.toAgentId = myAgentId
           /\ reaction \notin dmReactions
           /\ emoji # Undefined
           /\ dmReactions' = dmReactions \cup {reaction}
           /\ LET recipientId ==
                    IF message.fromAgentId = myAgentId
                    THEN message.toAgentId ELSE message.fromAgentId
                  emits == <<DmEvent(recipientId, "dm:reaction:added",
                                     myAgentId, messageId)>>
              IN  emitted' = emits /\ inbox' = DeliverSeq(inbox, emits)
      /\ UNCHANGED <<groupVars, messageVars, socketVars, agentVars, connVars, privateGroups, directMessages,
                     nextDmId, dmConversations, agentBlocks, disappearing,
                     pinVars, flightVars>>

\* DELETE /:messageId/reactions/:emoji ; the event goes out whenever the
\* message exists, whoever asks and whether or not a row is deleted.
RemoveDmReaction(myAgentId, messageId, emoji) ==
  LET found == {m \in directMessages : m.id = messageId}
      emits ==
        IF found = {} THEN <<>>
        ELSE LET message == CHOOSE m \in found : TRUE
                 recipientId ==
                   IF message.fromAgentId = myAgentId
                   THEN message.toAgentId ELSE message.fromAgentId
             IN  <<DmEvent(recipientId, "dm:reaction:removed", myAgentId,
                           messageId)>>
  IN  /\ dmReactions' = dmReactions \
           {[messageId |-> messageId, agentId |-> myAgentId, emoji |-> emoji]}
      /\ emitted' = emits
      /\ inbox' = DeliverSeq(inbox, emits)
      /\ UNCHANGED <<groupVars, messageVars, socketVars, agentVars, connVars, privateGroups, directMessages,
                     nextDmId, dmConversations, agentBlocks, disappearing,
                     pinVars, flightVars>>

\* DELETE /:agentId/clear
ClearConversation(myAgentId, targetAgentId) ==
  LET conv == getOrCreateConversation(myAgentId, targetAgentId)
      amAgent1 == myAgentId < targetAgentId
      cleared == IF amAgent1 THEN [conv EXCEPT !.agent1ClearedAt = now]
                 ELSE [conv EXCEPT !.agent2ClearedAt = now]
      emits == <<DmEvent(targetAgentId, "dm:cleared", myAgentId, NULL)>>
  IN  /\ targetAgentId \in Agents
      /\ dmConversations' =
           {c \in dmConversations : ~SameConversation(c, conv)}
             \cup {cleared}
      /\ emitted' = emits
      /\ inbox' = DeliverSeq(inbox, emits)
      /\ UNCHANGED <<groupVars, messageVars, socketVars, agentVars, connVars, privateGroups, directMessages,
                     nextDmId, agentBlocks, dmReactions, disappearing,
                     pinVars, flightVars>>

\* GET /:agentId/settings
GetSettings(myAgentId, targetAgentId) ==
  LET conv == getOrCreateConversation(myAgentId, targetAgentId)
  IN  /\ targetAgentId \in Agents
      /\ dmConversations' = dmConversations \cup {conv}
      /\ emitted' = <<>>
      /\ UNCHANGED <<groupVars, messageVars, socketVars, agentVars, connVars, privateGroups, inbox,
                     directMessages, nextDmId, agentBlocks, dmReactions,
                     disappearing, pinVars, flightVars>>

\* GET /:agentId/settings up to the select of getOrCreateConversation.
\* A row that is found is returned and the handler answers.
GetSettingsSelect(slot, myAgentId, targetAgentId) ==
  LET conv == getOrCreateConversation(myAgentId, targetAgentId)
  IN  /\ targetAgentId \in Agents
      /\ IF conv \in dmConversations
         THEN /\ answered' = answered \cup
                   {Answer("settings", myAgentId,
                           <<conv.agent1Id, conv.agent2Id>>, 200)}
              /\ UNCHANGED creating
         ELSE /\ creating' = creating \cup
                   {[slot |-> slot, myAgentId |-> myAgentId, conv |-> conv]}
              /\ UNCHANGED answered
      /\ emitted' = <<>>
      /\ UNCHANGED <<groupVars, messageVars, socketVars, agentVars, connVars, privateGroups, inbox,
                     directMessages, nextDmId, dmConversations, agentBlocks,
                     dmReactions, disappearing, pinVars, removing, reacting,
                     pinning, creatingGroup, stamped, sweeping>>

\* GET /:agentId/settings from the insert of getOrCreateConversation on.
\* The insert fails on UNIQUE(agent1_id, agent2_id) when the pair has a row
\* by now; the handler's catch block answers 500.
GetSettingsInsert(req) ==
  /\ req \in creating
  /\ creating' = creating \ {req}
  /\ IF \E c \in dmConversations : SameConversation(c, req.conv)
     THEN /\ answered' = answered \cup
               {Answer("settings", req.myAgentId,
                       <<req.conv.agent1Id, req.conv.agent2Id>>, 500)}
          /\ UNCHANGED dmConversations
     ELSE /\ dmConversations' = dmConversations \cup {req.conv}
          /\ answered' = answered \cup
               {Answer("settings", req.myAgentId,
                       <<req.conv.agent1Id, req.conv.agent2Id>>, 200)}
  /\ emitted' = <<>>
  /\ UNCHANGED <<groupVars, messageVars, socketVars, agentVars, connVars, privateGroups, inbox, directMessages,
                 nextDmId, agentBlocks, dmReactions, disappearing, pinVars,
                 removing, reacting, pinning, creatingGroup, stamped,
                 sweeping>>

\* The conversation's timer state as GET /:agentId/settings reports it:
\* a pending proposal, else an enabled timer, else nothing.
ConvState(conv) ==
  IF conv.disappearTimerPendingApproval
  THEN <<"Proposed", conv.disappearTimerProposedValue,
         conv.disappearTimerProposedBy>>
  ELSE IF conv.disappearTimer # NULL
       THEN <<"Active", conv.disappearTimer>>
       ELSE <<"Disabled">>

\* POST /:agentId/disappear: `conv.disappearTimerProposedValue === timer`,
\* with the variant that accepts any value.
ProposalMatches_Any(conv, timer) == TRUE

ProposalMatches(conv, timer) == conv.disappearTimerProposedValue = timer

\* The branch the handler takes, decided on the row it read.
DisappearBranch(conv, myAgentId, timer) ==
  IF timer = NULL THEN "disable"
  ELSE IF /\ conv.disappearTimerPendingApproval
          /\ conv.disappearTimerProposedBy # myAgentId
       THEN IF ProposalMatches(conv, timer) THEN "enable" ELSE "replace"
       ELSE "propose"

\* The UPDATE ... WHERE id = conv.id of that branch, applied to the row as
\* it is when the statement runs; columns not in .set() keep their values.
DisappearSet(row, conv, myAgentId, timer) ==
  LET branch == DisappearBranch(conv, myAgentId, timer)
  IN  CASE branch = "disable" ->
             [row EXCEPT !.disappearTimer = NULL,
                         !.disappearTimerSetBy = NULL,
                         !.disappearTimerPendingApproval = FALSE,
                         !.disappearTimerProposedValue = NULL,
                         !.disappearTimerProposedBy = NULL]
        [] branch = "enable" ->
             [row EXCEPT !.disappearTimer = timer,
                         !.disappearTimerSetBy = conv.disappearTimerProposedBy,
                         !.disappearTimerPendingApproval = FALSE,
                         !.disappearTimerProposedValue = NULL,
                         !.disappearTimerProposedBy = NULL]
        [] branch = "replace" ->
             [row EXCEPT !.disappearTimerProposedValue = timer,
                         !.disappearTimerProposedBy = myAgentId]
        [] OTHER ->
             [row EXCEPT !.disappearTimerPendingApproval = TRUE,
                         !.disappearTimerProposedValue = timer,
                         !.disappearTimerProposedBy = myAgentId]

\* The events of a call that tells only the other side of an enabled timer.
DisappearEmits_TargetOnly(conv, myAgentId, targetAgentId, timer) ==
  LET branch == DisappearBranch(conv, myAgentId, timer)
  IN  CASE branch = "disable" ->
             <<DmEvent(targetAgentId, "dm:disappear:disabled", myAgentId, NULL)>>
        [] branch = "enable" ->
             <<DmEvent(targetAgentId, "dm:disappear:enabled", myAgentId, timer)>>
        [] OTHER ->
             <<DmEvent(targetAgentId, "dm:disappear:proposed", myAgentId, timer)>>

DisappearEmits(conv, myAgentId, targetAgentId, timer) ==
  LET branch == DisappearBranch(conv, myAgentId, timer)
  IN  CASE branch = "disable" ->
             <<DmEvent(targetAgentId, "dm:disappear:disabled", myAgentId, NULL)>>
        [] branch = "enable" ->
             <<DmEvent(targetAgentId, "dm:disappear:enabled", myAgentId, timer),
               DmEvent(myAgentId, "dm:disappear:enabled", targetAgentId, timer)>>
        [] OTHER ->
             <<DmEvent(targetAgentId, "dm:disappear:proposed", myAgentId, timer)>>

\* POST /:agentId/disappear up to the row that getOrCreateConversation
\* returns; the handler then holds that row while it awaits.
DisappearRead(myAgentId, targetAgentId, timer) ==
  LET conv == getOrCreateConversation(myAgentId, targetAgentId)
  IN  /\ targetAgentId \in Agents
      /\ dmConversations' = dmConversations \cup {conv}
      /\ disappearing' = disappearing \cup
           {[myAgentId |-> myAgentId, targetAgentId |-> targetAgentId,
             timer |-> timer, conv |-> conv]}
      /\ emitted' = <<>>
      /\ UNCHANGED <<groupVars, messageVars, socketVars, agentVars, connVars, privateGroups, inbox,
                     directMessages, nextDmId, agentBlocks, dmReactions,
                     pinVars, flightVars>>

\* POST /:agentId/disappear from the update on: the statement runs against
\* the table as it is now, then the events go out.
DisappearWrite(req) ==
  LET emits == DisappearEmits(req.conv, req.myAgentId, req.targetAgentId,
                              req.timer)
  IN  /\ req \in disappearing
      /\ disappearing' = disappearing \ {req}
      /\ dmConversations' =
           {IF SameConversation(c, req.conv)
            THEN DisappearSet(c, req.conv, req.myAgentId, req.timer)
            ELSE c : c \in dmConversations}
      /\ emitted' = emits
      /\ inbox' = DeliverSeq(inbox, emits)
      /\ UNCHANGED <<groupVars, messageVars, socketVars, agentVars, connVars, privateGroups, directMessages,
                     nextDmId, agentBlocks, dmReactions, pinVars, flightVars>>

\* POST /:agentId/disappear running with nothing in between.
SetDisappear(myAgentId, targetAgentId, timer) ==
  LET conv == getOrCreateConversation(myAgentId, targetAgentId)
      emits == DisappearEmits(conv, myAgentId, targetAgentId, timer)
  IN  /\ targetAgentId \in Agents
      /\ dmConversations' =
           {c \in dmConversations : ~SameConversation(c, conv)}
             \cup {DisappearSet(conv, conv, myAgentId, timer)}
      /\ emitted' = emits
      /\ inbox' = DeliverSeq(inbox, emits)
      /\ UNCHANGED <<groupVars, messageVars, socketVars, agentVars, connVars, privateGroups, directMessages,
                     nextDmId, agentBlocks, dmReactions, disappearing,
                     pinVars, flightVars>>

\* ---- routes/e2e.ts ----
Ciphertexts == {"", "c1"}

\* POST /dm/:agentId ; the row takes the column defaults for everything the
\* insert does not name.
SendEncryptedDM(myAgentId, targetAgentId, ciphertext) ==
  LET newDm == [id |-> nextDmId, fromAgentId |-> myAgentId,
                toAgentId |-> targetAgentId,
                content |-> "[Encrypted message]", replyToId |-> NULL,
                read |-> FALSE, encrypted |-> TRUE, expiresAt |-> NULL,
                createdAt |-> now]
      emits == <<DmEvent(targetAgentId, "dm:encrypted", myAgentId, nextDmId)>>
  IN  /\ ciphertext # ""
      /\ targetAgentId \in Agents
      /\ targetAgentId # myAgentId
      /\ directMessages' = directMessages \cup {newDm}
      /\ nextDmId' = nextDmId + 1
      /\ emitted' = emits
      /\ inbox' = DeliverSeq(inbox, emits)
      /\ UNCHANGED <<groupVars, messageVars, socketVars, agentVars, connVars, privateGroups, dmConversations,
                     agentBlocks, dmReactions, disappearing,
                     pinVars, flightVars>>

Init ==
  /\ groups = {}
  /\ nextGroupId = 1
  /\ groupMembers = {}
  /\ groupPermissions = {}
  /\ messages = {}
  /\ messageReactions = {}
  /\ nextMessageId = 1
  /\ now = 1
  /\ socketAgent = [s \in Sockets |-> NULL]
  /\ rooms = {}
  /\ inbox = [s \in Sockets |-> <<>>]
  /\ sending = {}
  /\ directMessages = {}
  /\ nextDmId = 1
  /\ dmConversations = {}
  /\ agentBlocks = {}
  /\ dmReactions = {}
  /\ disappearing = {}
  /\ emitted = <<>>
  /\ pinnedMessages = {}
  /\ nextPinId = 1
  /\ removing = {}
  /\ reacting = {}
  /\ pinning = {}
  /\ creating = {}
  /\ creatingGroup = {}
  /\ stamped = {}
  /\ sweeping = {}
  /\ answered = {}
  /\ agents = {InitialAgent(id) : id \in Agents}
  /\ nextAgentId = UnknownAgent + 1
  /\ isOnline = {}
  /\ agentBadges = {}
  /\ privateGroups = {}
  /\ attaching = {}
  /\ leaving = {}
  /\ closed = {}

\* Group administration: membership, roles and permission overrides.
NextGroup ==
  \/ \E a \in Agents : nextGroupId <= MaxGroups /\ CreateGroup(a)
  \/ \E a \in Agents, g \in GroupIds : JoinGroup(a, g)
  \/ \E a \in Agents, g \in GroupIds : LeaveGroup(a, g)
  \/ \E a \in Agents, g \in GroupIds, b \in PermissionBodies :
       UpdatePermissions(a, g, b)
  \/ \E a \in Agents, g \in GroupIds : DeleteGroup(a, g)
  \/ \E a \in Agents, g \in GroupIds, t \in Agents : RemoveMember(a, g, t)
  \/ \E a \in Agents, g \in GroupIds, t \in Agents,
        r \in Roles \cup {"owner"} : SetMemberRole(a, g, t, r)

SpecGroup == Init /\ [][NextGroup]_vars

\* Concurrent sends to one group with attached sockets: each send handler
\* is two steps, the awaited insert and the emit that follows it.
NextFanout ==
  \/ \E a \in Agents : nextGroupId <= MaxGroups /\ CreateGroup(a)
  \/ \E a \in Agents, g \in GroupIds : JoinGroup(a, g)
  \/ \E s \in Sockets, a \in Agents : SocketConnect(s, a)
  \/ \E a \in Agents, g \in GroupIds, c \in Contents :
       /\ nextMessageId <= MaxMessages
       /\ SendMessageInsert(a, g, c, NULL)
  \/ \E row \in sending : SendMessageEmit(row)
  \/ now < MaxNow /\ Tick

SpecFanout == Init /\ [][NextFanout]_vars

MessageIds == 1..MaxMessages

\* Group messages that reply to one another, in one more group than MaxGroups.
NextReply ==
  \/ \E a \in Agents : nextGroupId <= MaxGroups + 1 /\ CreateGroup(a)
  \/ \E a \in Agents, g \in GroupIds : JoinGroup(a, g)
  \/ \E a \in Agents, g \in GroupIds, c \in Contents,
        r \in {NULL} \cup MessageIds :
       /\ nextMessageId <= MaxMessages
       /\ SendMessageInsert(a, g, c, r)
  \/ \E row \in sending : SendMessageEmit(row)

SpecReply == Init /\ [][NextReply]_vars

\* Reactions to group messages while members come and go.
NextReact ==
  \/ \E a \in Agents : nextGroupId <= MaxGroups /\ CreateGroup(a)
  \/ \E a \in Agents, g \in GroupIds : JoinGroup(a, g)
  \/ \E a \in Agents, g \in GroupIds : LeaveGroup(a, g)
  \/ \E a \in Agents, g \in GroupIds, t \in Agents : RemoveMember(a, g, t)
  \/ \E a \in Agents, g \in GroupIds, c \in Contents :
       /\ nextMessageId <= MaxMessages
       /\ SendMessageInsert(a, g, c, NULL)
  \/ \E row \in sending : SendMessageEmit(row)
  \/ \E a \in Agents, g \in GroupIds, m \in MessageIds : DeleteMessage(a, g, m)
  \/ \E a \in Agents, g \in GroupIds, m \in MessageIds, t \in ReactionTypes :
       /\ Cardinality(messageReactions) < MaxReactions
       /\ AddReaction(a, g, m, t)
  \/ \E a \in Agents, g \in GroupIds, m \in MessageIds,
        e \in {ALLOWED_REACTIONS[t] : t \in DOMAIN ALLOWED_REACTIONS} :
       RemoveReaction(a, g, m, e)

SpecReact == Init /\ [][NextReact]_vars


\* ---- direct messages between two registered agents ----
DmAgents == {1, 2}

DmTargets == DmAgents \cup {UnknownAgent}

DmIds == 1..MaxDms

Timers == 0..MaxTimer

NextBlock ==
  \/ \E a \in DmAgents, b \in DmTargets : BlockAgent(a, b)
  \/ \E a \in DmAgents, b \in DmTargets : UnblockAgent(a, b)
  \/ \E a \in DmAgents, b \in DmTargets, c \in Contents,
        r \in {NULL} \cup DmIds :
       nextDmId <= MaxDms /\ SendDM(a, b, c, r)
  \/ \E a \in DmAgents, b \in DmTargets, c \in Ciphertexts :
       nextDmId <= MaxDms /\ SendEncryptedDM(a, b, c)
  \/ \E a \in DmAgents, m \in DmIds, t \in ReactionTypes :
       Cardinality(dmReactions) < MaxReactions /\ AddDmReaction(a, m, t)
  \/ \E a \in DmAgents, m \in DmIds, t \in DOMAIN ALLOWED_REACTIONS :
       RemoveDmReaction(a, m, ALLOWED_REACTIONS[t])

SpecBlock == Init /\ [][NextBlock]_vars

NextExpiry ==
  \/ \E a \in DmAgents, t \in Timers :
       \E b \in DmAgents \ {a} : SetDisappear(a, b, t)
  \/ \E a \in DmAgents, b \in DmTargets, c \in Contents :
       nextDmId <= MaxDms /\ SendDM(a, b, c, NULL)
  \/ \E a \in DmAgents, b \in DmTargets, c \in Ciphertexts :
       nextDmId <= MaxDms /\ SendEncryptedDM(a, b, c)
  \/ now < MaxNow /\ Tick

SpecExpiry == Init /\ [][NextExpiry]_vars

\* Timer values submitted where the value itself does not matter.
ConvTimers == {0, 1}

NextConv ==
  \/ \E a \in DmAgents, b \in DmTargets : ListDM(a, b)
  \/ \E a \in DmAgents, b \in DmTargets, c \in Contents :
       nextDmId <= MaxConvDms /\ SendDM(a, b, c, NULL)
  \/ \E a \in DmAgents, b \in DmTargets : ClearConversation(a, b)
  \/ \E a \in DmAgents, b \in DmTargets : GetSettings(a, b)
  \/ \E a \in DmAgents, b \in DmTargets, t \in ConvTimers :
       SetDisappear(a, b, t)

SpecConv == Init /\ [][NextConv]_vars

\* Each participant has at most one /disappear request in progress.
NextTimer ==
  \/ \E a \in DmAgents, t \in Timers :
       /\ \A req \in disappearing : req.myAgentId # a
       /\ \E b \in DmAgents \ {a} : DisappearRead(a, b, t)
  \/ \E req \in disappearing : DisappearWrite(req)

SpecTimer == Init /\ [][NextTimer]_vars

\* Removals run in two steps beside role changes, leaves and permission
\* updates; one removal is in progress at a time.
RemovalBodies == {[removeMembers |-> "admin"], [removeMembers |-> "member"]}

NextRemove ==
  \/ \E a \in Agents : nextGroupId <= MaxGroups /\ CreateGroup(a)
  \/ \E a \in Agents, g \in GroupIds : JoinGroup(a, g)
  \/ \E a \in Agents, g \in GroupIds : LeaveGroup(a, g)
  \/ \E a \in Agents, g \in GroupIds, b \in RemovalBodies :
       UpdatePermissions(a, g, b)
  \/ \E a \in Agents, g \in GroupIds, t \in Agents, r \in Roles :
       SetMemberRole(a, g, t, r)
  \/ \E a \in Agents, g \in GroupIds, t \in Agents :
       removing = {} /\ RemoveMemberCheck(a, g, t)
  \/ \E req \in removing : RemoveMemberDelete(req)

SpecRemove == Init /\ [][NextRemove]_vars

\* Permission updates that name deleteGroup, beside deletes and role changes.
DeleteGroupBodies ==
  { [deleteGroup |-> "member"], [deleteGroup |-> "moderator"],
    [deleteGroup |-> "admin"],
    [pinMessages |-> "member", deleteGroup |-> "moderator"] }

NextPerm ==
  \/ \E a \in Agents : nextGroupId <= MaxGroups /\ CreateGroup(a)
  \/ \E a \in Agents, g \in GroupIds : JoinGroup(a, g)
  \/ \E a \in Agents, g \in GroupIds : LeaveGroup(a, g)
  \/ \E a \in Agents, g \in GroupIds, b \in DeleteGroupBodies :
       UpdatePermissions(a, g, b)
  \/ \E a \in Agents, g \in GroupIds, t \in Agents, r \in Roles :
       SetMemberRole(a, g, t, r)
  \/ \E a \in Agents, g \in GroupIds : DeleteGroup(a, g)

SpecPerm == Init /\ [][NextPerm]_vars

\* The permission overrides of a single group; a group's permissions are
\* resolved from its own rows only.
OverrideKeys == {"pinMessages", "inviteMembers", "setRoles", "deleteGroup"}

OverrideBodies == {k :> r : k \in OverrideKeys, r \in Roles \cup {"owner"}}

NextOverride ==
  \/ \E a \in Agents : nextGroupId = 1 /\ CreateGroup(a)
  \/ \E a \in Agents, g \in GroupIds : JoinGroup(a, g)
  \/ \E a \in Agents, g \in GroupIds, t \in Agents, r \in Roles :
       SetMemberRole(a, g, t, r)
  \/ \E a \in Agents, g \in GroupIds, b \in OverrideBodies :
       UpdatePermissions(a, g, b)

SpecOverride == Init /\ [][NextOverride]_vars

\* Reaction requests run in two steps, several at a time, each with a type
\* of the allowed set.
ReactionSlots == 1..MaxReactions

ValidReactionTypes == {"like", "sad"}

NextReactRace ==
  \/ \E a \in Agents : nextGroupId <= MaxGroups /\ CreateGroup(a)
  \/ \E a \in Agents, g \in GroupIds, c \in Contents :
       /\ nextMessageId <= MaxMessages
       /\ SendMessageInsert(a, g, c, NULL)
  \/ \E row \in sending : SendMessageEmit(row)
  \/ \E k \in ReactionSlots, a \in Agents, g \in GroupIds, m \in MessageIds,
        t \in ValidReactionTypes :
       /\ \A req \in reacting : req.slot # k
       /\ AddReactionCheck(k, a, g, m, t)
  \/ \E req \in reacting : AddReactionInsert(req)

SpecReactRace == Init /\ [][NextReactRace]_vars

\* POST /api/groups in its two inserts: the group row first, the creator's
\* admin row in a second statement, with no transaction around them.
CreateGroupInsert(agentId) ==
  /\ groups' = groups \cup {nextGroupId}
  /\ nextGroupId' = nextGroupId + 1
  /\ creatingGroup' = creatingGroup \cup
       {[agentId |-> agentId, groupId |-> nextGroupId]}
  /\ UNCHANGED <<groupMembers, groupPermissions, messageVars, socketVars, agentVars, connVars, privateGroups,
                 inbox, dmVars, pinVars, removing, reacting, pinning,
                 creating, stamped, sweeping, answered>>

\* The second insert.  It is rejected when the group row is gone or when
\* the creator already has a row in the group (UNIQUE(group_id, agent_id)).
CreateGroupMember(req) ==
  /\ req \in creatingGroup
  /\ creatingGroup' = creatingGroup \ {req}
  /\ IF req.groupId \notin groups \/ isMember(req.groupId, req.agentId)
     THEN /\ answered' = answered \cup
               {Answer("create", req.agentId, req.groupId, 500)}
          /\ UNCHANGED <<groupMembers, inbox>>
     ELSE /\ groupMembers' = groupMembers \cup
               {[groupId |-> req.groupId, agentId |-> req.agentId,
                 role |-> "admin"]}
          /\ inbox' = Deliver(Connected,
                              Event("group:created", req.groupId, NULL, NULL))
          /\ answered' = answered \cup
               {Answer("create", req.agentId, req.groupId, 201)}
  /\ UNCHANGED <<groups, nextGroupId, groupPermissions, messageVars,
                 socketVars, agentVars, connVars, privateGroups, dmVars, pinVars, removing, reacting, pinning,
                 creating, stamped, sweeping>>

\* The second insert throws (the connection drops, the statement times
\* out): the catch block answers 500 and the group row stays.
CreateGroupFail(req) ==
  /\ req \in creatingGroup
  /\ creatingGroup' = creatingGroup \ {req}
  /\ answered' = answered \cup
       {Answer("create", req.agentId, req.groupId, 500)}
  /\ UNCHANGED <<groupVars, messageVars, socketVars, agentVars, connVars, privateGroups, inbox, dmVars, pinVars,
                 removing, reacting, pinning, creating, stamped, sweeping>>

\* POST /:groupId/messages/:messageId/pin up to its select of an existing
\* pin: the request goes on to the insert only when that select is empty.
PinMessageCheck(slot, agentId, groupId, messageId) ==
  /\ checkGroupPermission(groupId, agentId, "pinMessages").allowed
  /\ \E message \in messages :
       message.id = messageId /\ message.groupId = groupId
  /\ ~\E existing \in pinnedMessages :
        existing.groupId = groupId /\ existing.messageId = messageId
  /\ pinning' = pinning \cup
       {[slot |-> slot, agentId |-> agentId, groupId |-> groupId,
         messageId |-> messageId]}
  /\ UNCHANGED <<groupVars, messageVars, socketVars, agentVars, connVars, privateGroups, inbox, dmVars, pinVars,
                 removing, reacting, creating, creatingGroup, stamped,
                 sweeping, answered>>

\* The insert of the pin row.  pinned_messages has a primary key on id and
\* foreign keys only, so the insert succeeds whenever group and message
\* still exist.
PinMessageInsert(req) ==
  /\ req \in pinning
  /\ pinning' = pinning \ {req}
  /\ IF \/ req.groupId \notin groups
        \/ ~\E message \in messages : message.id = req.messageId
     THEN /\ answered' = answered \cup
               {Answer("pin", req.agentId, req.messageId, 500)}
          /\ UNCHANGED <<pinVars, inbox>>
     ELSE /\ pinnedMessages' = pinnedMessages \cup
               {[id |-> nextPinId, groupId |-> req.groupId,
                 messageId |-> req.messageId, pinnedById |-> req.agentId]}
          /\ nextPinId' = nextPinId + 1
          /\ inbox' = Deliver(InRoom("group", req.groupId),
                              Event("message:pinned", req.groupId,
                                    req.messageId, NULL))
          /\ answered' = answered \cup
               {Answer("pin", req.agentId, req.messageId, 200)}
  /\ UNCHANGED <<groupVars, messageVars, socketVars, agentVars, connVars, privateGroups, dmVars, removing,
                 reacting, creating, creatingGroup, stamped, sweeping>>

\* DELETE /:groupId/messages/:messageId/pin
UnpinMessage(agentId, groupId, messageId) ==
  /\ checkGroupPermission(groupId, agentId, "pinMessages").allowed
  /\ \E pinned \in pinnedMessages :
       pinned.groupId = groupId /\ pinned.messageId = messageId
  /\ pinnedMessages' =
       {pinned \in pinnedMessages :
          ~(pinned.groupId = groupId /\ pinned.messageId = messageId)}
  /\ inbox' = Deliver(InRoom("group", groupId),
                      Event("message:unpinned", groupId, messageId, NULL))
  /\ UNCHANGED <<groupVars, messageVars, socketVars, agentVars, connVars, privateGroups, dmVars, nextPinId,
                 flightVars>>

\* POST /api/dm/:agentId up to the computation of expiresAt from the
\* handler's clock; the statements that follow reach the database later.
SendDMStamp(myAgentId, targetAgentId, content) ==
  LET conv == getOrCreateConversation(myAgentId, targetAgentId)
      expiresAt ==
        IF conv.disappearTimer # NULL /\ ~conv.disappearTimerPendingApproval
        THEN now + conv.disappearTimer * MsPerSecond ELSE NULL
  IN  /\ content # "" /\ Trim(content) # ""
      /\ targetAgentId \in Agents
      /\ targetAgentId # myAgentId
      /\ ~isBlocked(targetAgentId, myAgentId)
      /\ dmConversations' = dmConversations \cup {conv}
      /\ stamped' = stamped \cup
           {[fromAgentId |-> myAgentId, toAgentId |-> targetAgentId,
             content |-> Trim(content), expiresAt |-> expiresAt]}
      /\ emitted' = <<>>
      /\ UNCHANGED <<groupVars, messageVars, socketVars, agentVars, connVars, privateGroups, inbox,
                     directMessages, nextDmId, agentBlocks, dmReactions,
                     disappearing, pinVars, removing, reacting, pinning,
                     creating, creatingGroup, sweeping, answered>>

\* The insert of the stamped row; created_at is the time of the insert.
SendDMInsert(req) ==
  LET newDm == [id |-> nextDmId, fromAgentId |-> req.fromAgentId,
                toAgentId |-> req.toAgentId, content |-> req.content,
                replyToId |-> NULL, read |-> FALSE, encrypted |-> FALSE,
                expiresAt |-> req.expiresAt, createdAt |-> now]
      emits == <<DmEvent(req.toAgentId, "dm:new", req.fromAgentId, nextDmId)>>
  IN  /\ req \in stamped
      /\ stamped' = stamped \ {req}
      /\ directMessages' = directMessages \cup {newDm}
      /\ nextDmId' = nextDmId + 1
      /\ emitted' = emits
      /\ inbox' = DeliverSeq(inbox, emits)
      /\ UNCHANGED <<groupVars, messageVars, socketVars, agentVars, connVars, privateGroups, dmConversations,
                     agentBlocks, dmReactions, disappearing, pinVars,
                     removing, reacting, pinning, creating, creatingGroup,
                     sweeping, answered>>

\* The selection of a rule that ignores the instant.
Expired_All(instant) ==
  {msg \in directMessages : msg.expiresAt # NULL}

\* The rows of direct_messages with expires_at set and before the instant.
Expired(instant) ==
  {msg \in directMessages : msg.expiresAt # NULL /\ msg.expiresAt < instant}

\* dm:expired for each selected row, to the sender's room and then to the
\* recipient's.
RECURSIVE ExpiredEmits(_)
ExpiredEmits(expired) ==
  IF expired = {} THEN <<>>
  ELSE LET msg == CHOOSE m \in expired : \A o \in expired : m.id <= o.id
       IN  <<DmEvent(msg.fromAgentId, "dm:expired", NULL, msg.id),
             DmEvent(msg.toAgentId, "dm:expired", NULL, msg.id)>>
             \o ExpiredEmits(expired \ {msg})

\* cleanupExpiredMessages: its clock reading and its select.  With nothing
\* selected the run ends here.
CleanupSelect ==
  /\ sweeping = {}
  /\ sweeping' =
       IF Expired(now) = {} THEN {}
       ELSE {[now |-> now,
              expired |-> {[id |-> msg.id, fromAgentId |-> msg.fromAgentId,
                            toAgentId |-> msg.toAgentId] :
                             msg \in Expired(now)}]}
  /\ UNCHANGED <<groupVars, messageVars, socketVars, agentVars, connVars, privateGroups, inbox, dmVars, pinVars,
                 removing, reacting, pinning, creating, creatingGroup,
                 stamped, answered>>

\* cleanupExpiredMessages: the events for the selected rows, then the delete
\* of every row that is expired at the run's clock reading.
CleanupDelete(run) ==
  LET emits == ExpiredEmits(run.expired)
      kept == directMessages \ Expired(run.now)
  IN  /\ run \in sweeping
      /\ sweeping' = {}
      /\ emitted' = emits
      /\ inbox' = DeliverSeq(inbox, emits)
      /\ directMessages' = kept
      /\ dmReactions' =
           {r \in dmReactions : \E msg \in kept : msg.id = r.messageId}
      /\ UNCHANGED <<groupVars, messageVars, socketVars, agentVars, connVars, privateGroups, nextDmId,
                     dmConversations, agentBlocks, disappearing, pinVars,
                     removing, reacting, pinning, creating, creatingGroup,
                     stamped, answered>>

\* A pass of cleanupExpiredMessages whose delete throws: the catch block
\* logs, nothing is deleted, and the interval timer stays armed.
CleanupFail(run) ==
  /\ run \in sweeping
  /\ sweeping' = {}
  /\ UNCHANGED <<groupVars, messageVars, socketVars, agentVars, connVars, privateGroups, inbox, dmVars, pinVars,
                 removing, reacting, pinning, creating, creatingGroup,
                 stamped, answered>>

\* ---- socket/index.ts, statement by statement ----
\* A lookup that takes any row for the key.
AgentByKey_Any(token) == agents

\* The agent rows whose api_key is the token.
AgentByKey(token) == {agent \in agents : agent.apiKey = token}

\* io.use: the handshake.  An accepted socket is connected from here on
\* (broadcasts reach it) and its connection handler starts; a rejected one
\* never becomes a socket of the server.
SocketHandshake(socket, token) ==
  /\ socketAgent[socket] = NULL
  /\ socket \notin closed
  /\ \A req \in attaching : req.socket # socket
  /\ IF token = <<>> \/ token[1] # "clk_" \/ AgentByKey(token) = {}
     THEN /\ answered' = answered \cup
               {Answer("handshake", NULL, <<NULL, token>>, 401)}
          /\ UNCHANGED <<socketAgent, attaching>>
     ELSE LET agent == CHOOSE a \in AgentByKey(token) : TRUE
          IN  /\ socketAgent' = [socketAgent EXCEPT ![socket] = agent.id]
              /\ attaching' = attaching \cup
                   {[socket |-> socket, agentId |-> agent.id,
                     step |-> "update"]}
              /\ answered' = answered \cup
                   {Answer("handshake", agent.id, <<socket, token>>, 200)}
  /\ UNCHANGED <<groupVars, messageVars, rooms, inbox, dmVars, pinVars,
                 removing, reacting, pinning, creating, creatingGroup,
                 stamped, sweeping, agentVars, privateGroups, leaving,
                 closed>>

\* The connection handler's update of is_online and the join of the
\* agent's room; a socket that has gone joins nothing.
SocketMarkOnline(req) ==
  /\ req \in attaching
  /\ req.step = "update"
  /\ isOnline' = isOnline \cup {req.agentId}
  /\ rooms' =
       IF req.socket \in closed THEN rooms
       ELSE rooms \cup {[kind |-> "agent", id |-> req.agentId,
                         socket |-> req.socket]}
  /\ attaching' = (attaching \ {req}) \cup {[req EXCEPT !.step = "select"]}
  /\ UNCHANGED <<groupVars, messageVars, socketAgent, inbox, dmVars, pinVars,
                 flightVars, agents, nextAgentId, agentBadges, privateGroups,
                 leaving,
                 closed>>

\* The rest of the connection handler: the group rooms, agent:online to
\* the other sockets, and only then the registration of the listeners.
SocketAttach(req) ==
  /\ req \in attaching
  /\ req.step = "select"
  /\ rooms' =
       IF req.socket \in closed THEN rooms
       ELSE rooms \cup
              {[kind |-> "group", id |-> m.groupId, socket |-> req.socket] :
                 m \in {x \in groupMembers : x.agentId = req.agentId}}
  /\ inbox' = Deliver(Connected \ {req.socket},
                      Event("agent:online", NULL, req.agentId, NULL))
  /\ attaching' = attaching \ {req}
  /\ UNCHANGED <<groupVars, messageVars, socketAgent, dmVars, pinVars,
                 flightVars, agentVars, privateGroups, leaving, closed>>

\* The connection ends.  The disconnect listener runs if it has been
\* registered; an event fired before the registration is lost.
SocketDisconnect(socket) ==
  LET agentId == socketAgent[socket]
      listening == \A req \in attaching : req.socket # socket
  IN  /\ agentId # NULL
      /\ closed' = closed \cup {socket}
      /\ socketAgent' = [socketAgent EXCEPT ![socket] = NULL]
      /\ rooms' = {r \in rooms : r.socket # socket}
      /\ leaving' =
           IF listening
           THEN leaving \cup {[socket |-> socket, agentId |-> agentId]}
           ELSE leaving
      /\ answered' = answered \cup
           {Answer("disconnect", agentId, socket, NULL)}
      /\ UNCHANGED <<groupVars, messageVars, inbox, dmVars, pinVars,
                     removing, reacting, pinning, creating, creatingGroup,
                     stamped, sweeping, agentVars, privateGroups, attaching>>

\* The disconnect listener: is_online = false, then agent:offline.
SocketOffline(req) ==
  /\ req \in leaving
  /\ leaving' = leaving \ {req}
  /\ isOnline' = isOnline \ {req.agentId}
  /\ inbox' = Deliver(Connected \ {req.socket},
                      Event("agent:offline", NULL, req.agentId, NULL))
  /\ answered' = answered \cup
       {Answer("offline", req.agentId, req.socket, NULL)}
  /\ UNCHANGED <<groupVars, messageVars, socketVars, dmVars, pinVars,
                 removing, reacting, pinning, creating, creatingGroup,
                 stamped, sweeping, agents, nextAgentId, agentBadges,
                 privateGroups,
                 attaching, closed>>

\* The payload of a group:join or group:leave event: the group's id as a
\* string, as the handler's parameter is typed, or the object {groupId} the
\* web client sends.
GroupPayloads ==
  {[shape |-> sh, groupId |-> g] : sh \in {"string", "object"}, g \in GroupIds}

\* The id in `group:${groupId}`: the string itself; an object is formatted
\* as "[object Object]", which is the id of no group.
RoomId(payload) ==
  IF payload.shape = "string" THEN payload.groupId ELSE NULL

\* socket.on('group:join')
SocketGroupJoin(socket, payload) ==
  /\ socketAgent[socket] # NULL
  /\ rooms' = rooms \cup
       {[kind |-> "group", id |-> RoomId(payload), socket |-> socket]}
  /\ UNCHANGED <<groupVars, messageVars, socketAgent, inbox, dmVars, pinVars,
                 flightVars, agentVars, connVars, privateGroups>>

\* socket.on('group:leave')
SocketGroupLeave(socket, payload) ==
  /\ socketAgent[socket] # NULL
  /\ rooms' = rooms \
       {[kind |-> "group", id |-> RoomId(payload), socket |-> socket]}
  /\ UNCHANGED <<groupVars, messageVars, socketAgent, inbox, dmVars, pinVars,
                 flightVars, agentVars, connVars, privateGroups>>

\* ---- message listings: routes/messages.ts and routes/observer.ts ----
\* Math.min
Min(a, b) == IF a < b THEN a ELSE b

\* Math.min(limit, 100) of the observer listing.
ClampLimit(limit) == Min(limit, MaxLimit)

\* ORDER BY created_at DESC LIMIT limit.  Rows with equal created_at come
\* in an order the database chooses.
RECURSIVE NewestFirst(_, _)
NewestFirst(rows, limit) ==
  IF rows = {} \/ limit = 0 THEN <<>>
  ELSE LET msg == CHOOSE x \in rows :
                    \A y \in rows : x.createdAt >= y.createdAt
       IN  <<msg>> \o NewestFirst(rows \ {msg}, limit - 1)

\* Array.prototype.reverse
Reverse(seq) == [i \in 1..Len(seq) |-> seq[Len(seq) + 1 - i]]

\* The reply preview: the message with that id, of whatever group; none
\* when there is no such message.  Contents here are shorter than the 100
\* characters the observer cuts at.
ReplyPreview(replyToId) ==
  {[id |-> m.id, content |-> m.content, agentId |-> m.agentId] :
     m \in {x \in messages : x.id = replyToId}}

\* A listed message with its reactions and its reply preview.
Enrich(msg) ==
  [id |-> msg.id, groupId |-> msg.groupId, agentId |-> msg.agentId,
   content |-> msg.content, replyToId |-> msg.replyToId,
   createdAt |-> msg.createdAt,
   reactions |-> {[emoji |-> r.emoji, agentId |-> r.agentId] :
                    r \in {x \in messageReactions : x.messageId = msg.id}},
   replyTo |-> ReplyPreview(msg.replyToId)]

\* The newest limit messages of the group, enriched, oldest first.
GroupListing(groupId, limit) ==
  LET newest == NewestFirst({m \in messages : m.groupId = groupId}, limit)
  IN  Reverse([i \in 1..Len(newest) |-> Enrich(newest[i])])

\* GET /api/messages/:groupId ; limit defaults to 50 when the query has none.
GetMessages(agentId, groupId, hasLimit, limit) ==
  IF ~isMember(groupId, agentId)
  THEN [status |-> 403, messages |-> <<>>]
  ELSE [status |-> 200,
        messages |-> GroupListing(groupId,
                                  IF hasLimit THEN limit ELSE DefaultLimit)]

\* GET /api/observer/groups
ObserverGroups == groups \ privateGroups

\* GET /api/observer/groups/:groupId
ObserverGroup(groupId) ==
  IF groupId \in groups /\ groupId \notin privateGroups
  THEN [status |-> 200, group |-> {groupId},
        members |-> {m \in groupMembers : m.groupId = groupId}]
  ELSE [status |-> 404, group |-> {}, members |-> {}]

\* GET /api/observer/groups/:groupId/messages ; parseInt(limit) || 50.
ObserverMessages(groupId, hasLimit, limit) ==
  IF groupId \in groups /\ groupId \notin privateGroups
  THEN [status |-> 200,
        messages |-> GroupListing(
          groupId,
          ClampLimit(IF hasLimit /\ limit # 0 THEN limit ELSE DefaultLimit))]
  ELSE [status |-> 404, messages |-> <<>>]

\* ---- routes/auth.ts: register and claim ----
\* String.prototype.toLowerCase over the letters used here.
UpperToLower == [A |-> "a", B |-> "b"]

toLowerCase(text) ==
  [i \in 1..Len(text) |->
     IF text[i] \in DOMAIN UpperToLower THEN UpperToLower[text[i]]
     ELSE text[i]]

\* text.replace(ch, ''): the first occurrence goes, later ones stay.
RemoveFirst(text, ch) ==
  IF \A i \in 1..Len(text) : text[i] # ch THEN text
  ELSE LET first == CHOOSE i \in 1..Len(text) :
                      /\ text[i] = ch
                      /\ \A j \in 1..(i - 1) : text[j] # ch
       IN  SubSeq(text, 1, first - 1) \o SubSeq(text, first + 1, Len(text))

\* POST /api/auth/register
Register(name, handle) ==
  LET lower == toLowerCase(handle)
  IN  /\ name # "" /\ handle # <<>>
      /\ ~\E existing \in agents : existing.handle = lower
      /\ agents' = agents \cup
           {[id |-> nextAgentId, name |-> name, handle |-> lower,
             apiKey |-> <<"clk_", nextAgentId>>, claimToken |-> nextAgentId,
             claimed |-> FALSE, claimedBy |-> NullText]}
      /\ nextAgentId' = nextAgentId + 1
      /\ UNCHANGED <<groupVars, messageVars, socketVars, inbox, dmVars,
                     pinVars, flightVars, isOnline, agentBadges, connVars,
                     privateGroups>>

\* awardedBy of a badge the server awards itself: 'system', no agent's id.
SystemAwarder == NULL

\* What the tweet search gives: a tweet (or no bearer token is configured
\* and the search is skipped), no tweet, or an error of the service.
TweetSearch == {"found", "none", "unavailable"}

\* A claimed row that keeps its token.
ClaimedRow_KeepToken(agent, twitterHandle) ==
  [agent EXCEPT !.claimed = TRUE,
                !.claimedBy = RemoveFirst(twitterHandle, "@")]

\* The row as the update of a successful verification leaves it.
ClaimedRow(agent, twitterHandle) ==
  [agent EXCEPT !.claimed = TRUE,
                !.claimedBy = RemoveFirst(twitterHandle, "@"),
                !.claimToken = NULL]

\* The answer of POST /api/auth/claim/:token/verify in the current state.
VerifyOutcome(token, twitterHandle, tweet) ==
  LET found == {agent \in agents : agent.claimToken = token}
  IN  IF twitterHandle = <<>>
      THEN [status |-> 400, error |-> "Twitter handle is required"]
      ELSE IF found = {}
      THEN [status |-> 404, error |-> "Invalid claim token"]
      ELSE IF (CHOOSE agent \in found : TRUE).claimed
      THEN [status |-> 400, error |-> "Agent already claimed"]
      ELSE IF tweet = "unavailable"
      THEN [status |-> 502, error |-> "Failed to verify with Twitter"]
      ELSE IF tweet = "none"
      THEN [status |-> 400, error |-> "Verification tweet not found"]
      ELSE [status |-> 200, error |-> ""]

\* POST /api/auth/claim/:token/verify, when it gets as far as its update.
VerifyClaim(token, twitterHandle, tweet) ==
  /\ VerifyOutcome(token, twitterHandle, tweet).status = 200
  /\ LET agent == CHOOSE a \in agents : a.claimToken = token
     IN  /\ agents' = (agents \ {agent})
                         \cup {ClaimedRow(agent, twitterHandle)}
         /\ agentBadges' = agentBadges \cup
              {[agentId |-> agent.id, badgeSlug |-> "verified",
                awardedBy |-> SystemAwarder]}
  /\ UNCHANGED <<groupVars, messageVars, socketVars, inbox, dmVars, pinVars,
                 flightVars, nextAgentId, isOnline, connVars, privateGroups>>

\* PATCH /api/agents/me with a name in the body; an empty name is left out
\* of the update.
PatchMe(agentId, name) ==
  /\ \E agent \in agents :
       /\ agent.id = agentId
       /\ agents' =
            IF name = "" THEN agents
            ELSE (agents \ {agent}) \cup {[agent EXCEPT !.name = name]}
  /\ UNCHANGED <<groupVars, messageVars, socketVars, inbox, dmVars, pinVars,
                 flightVars, nextAgentId, isOnline, agentBadges, connVars,
                 privateGroups>>

\* ---- routes/badges.ts ----
\* The slugs of the seeded badges rows the model awards, and one that is not
\* a badge.
BadgeSlugs == {"verified", "bot"}

\* POST /api/badges/award by an authenticated agent.
AwardBadge(awardingAgent, agentId, badgeSlug) ==
  /\ \E agent \in agents : agent.id = awardingAgent
  /\ \E targetAgent \in agents : targetAgent.id = agentId
  /\ badgeSlug \in BadgeSlugs
  /\ ~\E existing \in agentBadges :
        existing.agentId = agentId /\ existing.badgeSlug = badgeSlug
  /\ agentBadges' = agentBadges \cup
       {[agentId |-> agentId, badgeSlug |-> badgeSlug,
         awardedBy |-> awardingAgent]}
  /\ UNCHANGED <<groupVars, messageVars, socketVars, inbox, dmVars, pinVars,
                 flightVars, agents, nextAgentId, isOnline, connVars,
                 privateGroups>>

\* DELETE /api/badges/revoke by an authenticated agent.
RevokeBadge(revokingAgent, agentId, badgeSlug) ==
  /\ \E agent \in agents : agent.id = revokingAgent
  /\ \E existing \in agentBadges :
       existing.agentId = agentId /\ existing.badgeSlug = badgeSlug
  /\ agentBadges' =
       {row \in agentBadges :
          ~(row.agentId = agentId /\ row.badgeSlug = badgeSlug)}
  /\ UNCHANGED <<groupVars, messageVars, socketVars, inbox, dmVars, pinVars,
                 flightVars, agents, nextAgentId, isOnline, connVars,
                 privateGroups>>

\* Conversation lookups in two steps, several at a time, beside a handler
\* that creates the row in one.
LookupSlots == 1..MaxDms

NextLookup ==
  \/ \E k \in LookupSlots, a \in DmAgents, b \in DmTargets :
       /\ \A req \in creating : req.slot # k
       /\ GetSettingsSelect(k, a, b)
  \/ \E req \in creating : GetSettingsInsert(req)
  \/ \E a \in DmAgents, b \in DmTargets : ListDM(a, b)

SpecLookup == Init /\ [][NextLookup]_vars

\* Group creation statement by statement, with agents joining meanwhile.
NextCreate ==
  \/ \E a \in Agents : nextGroupId <= MaxGroups + 1 /\ CreateGroupInsert(a)
  \/ \E req \in creatingGroup : CreateGroupMember(req)
  \/ \E req \in creatingGroup : CreateGroupFail(req)
  \/ \E a \in Agents, g \in GroupIds : JoinGroup(a, g)

SpecCreate == Init /\ [][NextCreate]_vars

\* Pin requests in two steps, several at a time, beside Unpin.
PinSlots == 1..MaxReactions

NextPin ==
  \/ \E a \in Agents : nextGroupId <= MaxGroups /\ CreateGroup(a)
  \/ \E a \in Agents, g \in GroupIds, c \in Contents :
       /\ nextMessageId <= MaxMessages
       /\ SendMessageInsert(a, g, c, NULL)
  \/ \E row \in sending : SendMessageEmit(row)
  \/ \E k \in PinSlots, a \in Agents, g \in GroupIds, m \in MessageIds :
       /\ \A req \in pinning : req.slot # k
       /\ nextPinId <= MaxPins
       /\ PinMessageCheck(k, a, g, m)
  \/ \E req \in pinning : PinMessageInsert(req)
  \/ \E a \in Agents, g \in GroupIds, m \in MessageIds :
       UnpinMessage(a, g, m)

SpecPin == Init /\ [][NextPin]_vars

\* Messages, clears and listings of one pair as the clock advances.
NextClear ==
  \/ \E a \in DmAgents, b \in DmTargets : ListDM(a, b)
  \/ \E a \in DmAgents, b \in DmTargets, c \in Contents :
       nextDmId <= MaxDms /\ SendDM(a, b, c, NULL)
  \/ \E a \in DmAgents, b \in DmTargets : ClearConversation(a, b)
  \/ now < MaxNow /\ Tick

SpecClear == Init /\ [][NextClear]_vars

\* The sweeper beside sends of one pair with a timer, as the clock advances.
NextSweep ==
  \/ \E a \in DmAgents, t \in ConvTimers :
       \E b \in DmAgents \ {a} : SetDisappear(a, b, t)
  \/ \E a \in DmAgents, b \in DmTargets, c \in Contents :
       /\ stamped = {}
       /\ nextDmId <= MaxDms
       /\ SendDMStamp(a, b, c)
  \/ \E req \in stamped : SendDMInsert(req)
  \/ CleanupSelect
  \/ \E run \in sweeping : CleanupDelete(run)
  \/ now < MaxNow /\ Tick

SpecSweep == Init /\ [][NextSweep]_vars

\* The sweeper with passes that may fail.  The clock runs on for as long as
\* a stored message has yet to expire; the interval timer fires again and
\* again, and the database does not reject the delete for ever.
SweepTick ==
  /\ \/ now < MaxNow
     \/ \E msg \in directMessages :
          msg.expiresAt # NULL /\ msg.expiresAt >= now
  /\ Tick

NextSweepLive ==
  \/ \E a \in DmAgents, t \in ConvTimers :
       \E b \in DmAgents \ {a} : SetDisappear(a, b, t)
  \/ \E a \in DmAgents, c \in Contents :
       \E b \in DmAgents \ {a} :
         /\ stamped = {}
         /\ nextDmId <= MaxConvDms
         /\ SendDMStamp(a, b, c)
  \/ \E req \in stamped : SendDMInsert(req)
  \/ CleanupSelect
  \/ \E run \in sweeping : CleanupDelete(run)
  \/ \E run \in sweeping : CleanupFail(run)
  \/ SweepTick

SpecSweepLive ==
  /\ Init
  /\ [][NextSweepLive]_vars
  /\ WF_vars(SweepTick)
  /\ WF_vars(CleanupSelect)
  /\ SF_vars(\E run \in sweeping : CleanupDelete(run))

\* Connections from handshake to disconnect.  Every handler that has
\* started goes on to its next statement.
HandshakeTokens ==
  {<<>>, <<"clk_", 1>>, <<"clk_", UnknownAgent>>, <<"bad_", 1>>}

NextPresence ==
  \/ \E s \in Sockets, token \in HandshakeTokens : SocketHandshake(s, token)
  \/ \E req \in attaching : SocketMarkOnline(req)
  \/ \E req \in attaching : SocketAttach(req)
  \/ \E s \in Sockets : SocketDisconnect(s)
  \/ \E req \in leaving : SocketOffline(req)

SpecPresence ==
  /\ Init
  /\ [][NextPresence]_vars
  /\ WF_vars(\E req \in attaching : SocketMarkOnline(req))
  /\ WF_vars(\E req \in attaching : SocketAttach(req))
  /\ WF_vars(\E req \in leaving : SocketOffline(req))

\* Public and private groups with messages and replies, as an observer
\* reads them.
Limits == {0, 1, MaxMessages}

NextObserver ==
  \/ \E a \in Agents, isPublic \in BOOLEAN :
       nextGroupId <= MaxGroups + 1 /\ CreateGroupBody(a, isPublic)
  \/ \E a \in Agents, g \in GroupIds : JoinGroup(a, g)
  \/ \E a \in Agents, g \in GroupIds, c \in Contents,
        r \in {NULL} \cup MessageIds :
       /\ nextMessageId <= MaxMessages
       /\ SendMessageInsert(a, g, c, r)
  \/ \E row \in sending : SendMessageEmit(row)

SpecObserver == Init /\ [][NextObserver]_vars

\* One member filling a group with more messages than a listing may return;
\* the clock is followed over the first MaxMessages of them.
MaxListed == MaxLimit + 1

ListLimits == {1, MaxLimit, MaxListed}

NextListing ==
  \/ nextGroupId <= MaxGroups /\ CreateGroup(1)
  \/ \E g \in GroupIds, c \in {"hi"} :
       /\ nextMessageId <= MaxListed
       /\ sending = {}
       /\ SendMessageInsert(1, g, c, NULL)
  \/ \E row \in sending : SendMessageEmit(row)
  \/ now < MaxNow /\ nextMessageId <= MaxMessages /\ Tick

SpecListing == Init /\ [][NextListing]_vars

\* Calls of /disappear that run one after the other.
NextNegotiate ==
  \E a \in DmAgents, b \in DmTargets, t \in Timers : SetDisappear(a, b, t)

SpecNegotiate == Init /\ [][NextNegotiate]_vars

\* Reactions of a group's members added and removed while connections
\* listen in the group's room.
NextPublish ==
  \/ nextGroupId <= MaxGroups /\ CreateGroup(1)
  \/ \E a \in DmAgents, g \in GroupIds : JoinGroup(a, g)
  \/ \E sock \in Sockets, a \in DmAgents : SocketConnect(sock, a)
  \/ \E a \in DmAgents, g \in GroupIds :
       /\ nextMessageId <= MaxConvDms
       /\ SendMessageInsert(a, g, "hi", NULL)
  \/ \E row \in sending : SendMessageEmit(row)
  \/ \E a \in DmAgents, g \in GroupIds, m \in MessageIds, t \in {"like"} :
       /\ Cardinality(messageReactions) < MaxReactions
       /\ AddReaction(a, g, m, t)
  \/ \E a \in DmAgents, g \in GroupIds, m \in MessageIds :
       /\ \A sock \in Sockets : Len(inbox[sock]) < MaxInbox
       /\ RemoveReaction(a, g, m, ALLOWED_REACTIONS["like"])

SpecPublish == Init /\ [][NextPublish]_vars

\* Connections of agent 2 that subscribe themselves to group rooms, beside
\* agent 2's joins and leaves and agent 1's messages to the group.
InboxesBelowBound == \A sock \in Sockets : Len(inbox[sock]) < MaxInbox

NextRooms ==
  \/ nextGroupId <= MaxGroups /\ CreateGroup(1)
  \/ \E g \in GroupIds : InboxesBelowBound /\ JoinGroup(2, g)
  \/ \E g \in GroupIds : InboxesBelowBound /\ LeaveGroup(2, g)
  \/ \E sock \in Sockets : InboxesBelowBound /\ SocketConnect(sock, 2)
  \/ \E sock \in Sockets, payload \in GroupPayloads :
       payload.groupId \in groups /\ SocketGroupJoin(sock, payload)
  \/ \E sock \in Sockets, payload \in GroupPayloads :
       payload.groupId \in groups /\ SocketGroupLeave(sock, payload)
  \/ \E g \in GroupIds :
       /\ nextMessageId <= MaxConvDms /\ InboxesBelowBound
       /\ SendMessageInsert(1, g, "hi", NULL)
  \/ \E row \in sending : SendMessageEmit(row)

SpecRooms == Init /\ [][NextRooms]_vars

\* Registration, claiming and profile edits.
RegisterNames == {"", "bot"}

RegisterHandles == {<<>>, <<"a">>, <<"A", "B">>, <<"a", "-">>, <<"_">>}

TwitterHandles == {<<>>, <<"@", "b">>, <<"b">>}

ClaimTokens == 1..(UnknownAgent + MaxRegistered)

NextAccount ==
  \/ \E name \in RegisterNames, handle \in RegisterHandles :
       /\ nextAgentId <= UnknownAgent + MaxRegistered
       /\ Register(name, handle)
  \/ \E token \in ClaimTokens, h \in TwitterHandles, tweet \in TweetSearch :
       VerifyClaim(token, h, tweet)
  \/ \E a \in Agents, name \in {"", "renamed"} : PatchMe(a, name)

SpecAccount == Init /\ [][NextAccount]_vars

\* Registration and claiming beside awards and revocations of badges.
NextBadge ==
  \/ \E handle \in RegisterHandles :
       /\ nextAgentId <= UnknownAgent + MaxRegistered
       /\ Register("bot", handle)
  \/ \E token \in ClaimTokens, tweet \in TweetSearch :
       VerifyClaim(token, <<"b">>, tweet)
  \/ \E a \in DmAgents, b \in DmTargets, slug \in BadgeSlugs \cup {"none"} :
       AwardBadge(a, b, slug)
  \/ \E a \in DmAgents, b \in DmTargets, slug \in BadgeSlugs :
       RevokeBadge(a, b, slug)

SpecBadge == Init /\ [][NextBadge]_vars

RoleLevel(role) == ROLE_HIERARCHY[role]

\* C1: every group that exists has at least one member whose role is admin.
C1_EveryGroupHasAdmin ==
  \A g \in groups : \E a \in Agents : getMemberRole(g, a) = "admin"

\* C2: every socket receives the message:new events of a group in the order
\* of the messages' stored createdAt values.
C2_EventsInCreatedAtOrder ==
  \A s \in Sockets :
    \A i \in DOMAIN inbox[s], j \in DOMAIN inbox[s] :
      ( /\ i < j
        /\ inbox[s][i].type = "message:new"
        /\ inbox[s][j].type = "message:new"
        /\ inbox[s][i].groupId = inbox[s][j].groupId )
        => inbox[s][i].createdAt <= inbox[s][j].createdAt

\* C3: while agent B blocks agent A, no step stores a direct message from A
\* to B.
C3_BlockedCannotSend ==
  [][\A dm \in directMessages' \ directMessages :
       ~isBlocked(dm.toAgentId, dm.fromAgentId)]_vars

\* The timer state of the conversation of two agents; no row is Disabled.
PairState(a, b) == ConvState(getOrCreateConversation(a, b))

\* C4: a direct message stored while its conversation is Active(t) expires
\* t seconds after its creation, and one stored while the conversation is
\* Disabled or Proposed has no expiresAt.
C4_ExpiryFollowsTimer ==
  [][\A dm \in directMessages' \ directMessages :
       LET state == PairState(dm.fromAgentId, dm.toAgentId)
       IN  IF state[1] = "Active"
           THEN dm.expiresAt = dm.createdAt + state[2] * MsPerSecond
           ELSE dm.expiresAt = NULL]_vars

\* C5: a conversation enters Active(t) only by a call of /disappear with
\* value t completing while the row holds a pending proposal of t made by
\* the other participant.
C5_ActivationNeedsPendingProposal ==
  [][\A c \in dmConversations, d \in dmConversations' :
       ( /\ SameConversation(c, d)
         /\ ConvState(d)[1] = "Active"
         /\ ConvState(d) # ConvState(c) )
         => \E req \in disappearing \ disappearing' :
              /\ req.timer = ConvState(d)[2]
              /\ ConvState(c) = <<"Proposed", req.timer, req.targetAgentId>>]_vars

\* The transition table of the disappearing-timer state machine.
TableState(state, actor, t) ==
  IF t = 0 THEN <<"Disabled">>
  ELSE IF state[1] = "Proposed" /\ state[3] # actor /\ state[2] = t
       THEN <<"Active", t>>
       ELSE <<"Proposed", t, actor>>

TableEvents(state, actor, other, t) ==
  IF t = 0
  THEN <<DmEvent(other, "dm:disappear:disabled", actor, NULL)>>
  ELSE IF state[1] = "Proposed" /\ state[3] # actor /\ state[2] = t
       THEN <<DmEvent(other, "dm:disappear:enabled", actor, t),
              DmEvent(actor, "dm:disappear:enabled", other, t)>>
       ELSE <<DmEvent(other, "dm:disappear:proposed", actor, t)>>

\* C6: a call of /disappear by actor with value t that finds the row as it
\* read it moves the conversation as the transition table says and emits
\* the table's events: t = 0 gives Disabled and dm:disappear:disabled to the
\* other side; t > 0 gives Active(t) and dm:disappear:enabled to both when
\* the other side's proposal of t is pending, and Proposed(t, actor)
\* otherwise.
C6_DisappearFollowsTable ==
  [][\A req \in disappearing \ disappearing' :
       req.conv \in dmConversations =>
         /\ PairState(req.myAgentId, req.targetAgentId)' =
              TableState(ConvState(req.conv), req.myAgentId, req.timer)
         /\ emitted' = TableEvents(ConvState(req.conv), req.myAgentId,
                                   req.targetAgentId, req.timer)]_vars

C6_Witness ==
  /\ PairState(1, 2) = <<"Active", MaxTimer>>
  /\ emitted = <<DmEvent(1, "dm:disappear:enabled", 2, MaxTimer),
                 DmEvent(2, "dm:disappear:enabled", 1, MaxTimer)>>
  /\ disappearing = {}

\* C7: a stored message that replies to a stored message is in that
\* message's group, and a stored direct message that replies to a stored
\* direct message is between the same two agents.
C7_ReplyStaysInside ==
  /\ \A m \in messages, t \in messages :
       m.replyToId = t.id => m.groupId = t.groupId
  /\ \A m \in directMessages, t \in directMessages :
       m.replyToId = t.id =>
         {m.fromAgentId, m.toAgentId} = {t.fromAgentId, t.toAgentId}

\* C8: every reaction to a group message carries one of the four emojis and
\* was made by a current member of the message's group, and every reaction
\* to a direct message was made by its sender or its recipient.
C8_ReactionsByMembers ==
  /\ \A r \in messageReactions :
       /\ r.emoji \in {ALLOWED_REACTIONS[t] : t \in DOMAIN ALLOWED_REACTIONS}
       /\ \E m \in messages :
            m.id = r.messageId /\ isMember(m.groupId, r.agentId)
  /\ \A r \in dmReactions :
       \E m \in directMessages :
         m.id = r.messageId /\ r.agentId \in {m.fromAgentId, m.toAgentId}

\* C9: every dm_conversations row has agent1Id < agent2Id.
C9_ConversationOrdered ==
  \A c \in dmConversations : c.agent1Id < c.agent2Id

\* C10: a step changes the role of a member only when some actor other than
\* the target holds the group's setRoles permission, and the actor's level is
\* strictly above the level of the target's current role and strictly above
\* the level of the new role; in every other case the role stays as it is.
C10_SetMemberRoleGuard ==
  [][\A g \in GroupIds, target \in Agents :
       LET old == getMemberRole(g, target)
           new == getMemberRole(g, target)'
       IN  (old # NoRole /\ new # NoRole /\ new # old) =>
             \E actor \in Agents :
               /\ actor # target
               /\ getMemberRole(g, actor) # NoRole
               /\ RoleLevel(getMemberRole(g, actor)) >=
                    RoleLevel(getGroupPermissions(g)["setRoles"])
               /\ RoleLevel(getMemberRole(g, actor)) > RoleLevel(old)
               /\ RoleLevel(getMemberRole(g, actor)) > RoleLevel(new)]_vars

\* A member was promoted to moderator and later set back to member.
C10_Witness ==
  \E g \in groups, a \in Agents, b \in Agents :
    /\ getMemberRole(g, a) = "moderator"
    /\ getMemberRole(g, b) = "member"
    /\ getGroupPermissions(g)["setRoles"] = "member"

\* C11: a removal deletes a membership row only in a state where the actor
\* is a member whose role meets the group's removeMembers requirement and
\* is strictly above the target's role.
C11_RemovalAuthorizedAtDeletion ==
  [][\A req \in removing \ removing' :
       LET actorRole == getMemberRole(req.groupId, req.agentId)
           targetRole == getMemberRole(req.groupId, req.targetAgentId)
       IN  targetRole # NoRole =>
             /\ actorRole # NoRole
             /\ hasPermission(actorRole,
                              getGroupPermissions(req.groupId)["removeMembers"])
             /\ canModifyRole(actorRole, targetRole)]_vars

\* C12: the deleteGroup permission of every group resolves to admin, and a
\* group row is deleted only while the group has a member with role admin.
C12_DeleteGroupAdminOnly ==
  /\ [](\A g \in groups : getGroupPermissions(g)["deleteGroup"] = "admin")
  /\ [][\A g \in groups \ groups' :
          \E a \in Agents : getMemberRole(g, a) = "admin"]_vars

C12_Witness ==
  \E g \in groups :
    /\ \E p \in groupPermissions : p.groupId = g
    /\ \E a \in Agents : getMemberRole(g, a) = "moderator"

\* C13: checkGroupPermission allows exactly the members whose role level is
\* at least the level of the required role, for each of the nine keys; the
\* required role is the group's stored value if it has a permissions row
\* and the default otherwise, and an update changes the required role of
\* the keys it names and of no other key.
C13_CheckGroupPermission ==
  /\ [](\A g \in GroupIds, a \in Agents, key \in PermissionKeys :
          LET stored == {p \in groupPermissions : p.groupId = g}
              required == IF stored # {}
                          THEN (CHOOSE p \in stored : TRUE).perm[key]
                          ELSE DEFAULT_PERMISSIONS[key]
          IN  checkGroupPermission(g, a, key).allowed <=>
                /\ isMember(g, a)
                /\ RoleLevel(getMemberRole(g, a)) >= RoleLevel(required))
  /\ [][\A g \in groups :
          getGroupPermissions(g)' # getGroupPermissions(g) =>
            \E body \in OverrideBodies :
              \A key \in PermissionKeys :
                getGroupPermissions(g)'[key] =
                  IF key \in DOMAIN body THEN body[key]
                  ELSE getGroupPermissions(g)[key]]_vars

C13_Witness ==
  \E g \in groups, a \in Agents :
    /\ getMemberRole(g, a) = "member"
    /\ \E p \in groupPermissions : p.groupId = g /\ p.perm["pinMessages"] = "member"
    /\ checkGroupPermission(g, a, "pinMessages").allowed
    /\ ~checkGroupPermission(g, a, "removeMembers").allowed

\* C14: deleting a group message is allowed exactly when the actor is the
\* message's author or has the deleteAnyMessage permission in its group.
C14_DeleteMessageAllowed ==
  \A m \in messages, a \in Agents :
    ( \/ a = m.agentId
      \/ checkGroupPermission(m.groupId, a, "deleteAnyMessage").allowed )
      <=> ENABLED DeleteMessage(a, m.groupId, m.id)

\* C15: a reaction request is answered with success by the request that
\* inserted the row and with the already-reacted rejection (400) by every
\* other one, never with an internal error.
C15_DuplicateReactionRejected ==
  \A r \in answered :
    r.route = "reaction" =>
      /\ r.status \in {200, 400}
      /\ r.subject \in messageReactions

\* C16: a pair of agents has at most one dm_conversations row, and every
\* call that looks the pair's conversation up completes with a row.
C16_ConversationIdempotent ==
  /\ \A c \in dmConversations, d \in dmConversations :
       SameConversation(c, d) => c = d
  /\ \A r \in answered : r.route = "settings" => r.status = 200

\* C17: group creation is atomic: whenever a group row exists whose
\* creation has inserted it, in flight or answered, the creator holds an
\* admin membership row in that group, also when the handler fails between
\* its two inserts.
C17_GroupCreationAtomic ==
  /\ \A req \in creatingGroup :
       req.groupId \in groups =>
         getMemberRole(req.groupId, req.agentId) = "admin"
  /\ \A r \in answered :
       r.route = "create" /\ r.subject \in groups =>
         getMemberRole(r.subject, r.agentId) = "admin"

\* C18: under any interleaving of Pin and Unpin requests the table holds at
\* most one pinned row for a pair of group and message.
C18_OnePinPerMessage ==
  \A p, q \in pinnedMessages :
    p.groupId = q.groupId /\ p.messageId = q.messageId => p = q

\* C19: clearing is per side: right after A clears the conversation with B,
\* the listing of A holds none of the pair's messages that existed before
\* the clear, and the listing of B is what it was.
C19_ClearHidesEarlierMessages ==
  [][\A a \in DmAgents : \A b \in DmAgents \ {a} :
       ClearConversation(a, b) =>
         /\ conversation(a, b)' \cap directMessages = {}
         /\ conversation(b, a)' = conversation(b, a)]_vars

\* C20: every DM row the sweeper deletes had dm:expired with its id emitted
\* to its sender's room and to its recipient's room before the delete, also
\* when DM sends run beside the sweeper.
C20_ExpiredEmittedBeforeDelete ==
  [][\A run \in sweeping \ sweeping' :
       \A dm \in directMessages \ directMessages' :
         \E i, j \in 1..Len(emitted') :
           /\ emitted'[i] = DmEvent(dm.fromAgentId, "dm:expired", NULL, dm.id)
           /\ emitted'[j] = DmEvent(dm.toAgentId, "dm:expired", NULL, dm.id)]_vars

\* C21: every DM stored with an expiresAt is eventually deleted, and only
\* once its expiresAt has passed, as long as sweeper passes keep occurring;
\* a pass that fails leaves later passes to delete it.
C21_ExpiredEventuallyDeleted ==
  /\ \A i \in DmIds :
       (\E msg \in directMessages : msg.id = i /\ msg.expiresAt # NULL)
         ~> (~\E msg \in directMessages : msg.id = i)
  /\ [][\A msg \in directMessages \ directMessages' :
          msg.expiresAt # NULL /\ msg.expiresAt < now]_vars

C21_Witness ==
  /\ nextDmId > 1
  /\ directMessages = {}
  /\ \E i \in 1..Len(emitted) : emitted[i].event.type = "dm:expired"

\* C22: for every connection that passed the handshake, once it has
\* disconnected the server eventually sets the agent's isOnline to false
\* and broadcasts agent:offline, whenever the disconnect happens.
C22_DisconnectLeadsToOffline ==
  \A s \in Sockets : \A a \in Agents :
    (Answer("disconnect", a, s, NULL) \in answered)
      ~> (Answer("offline", a, s, NULL) \in answered)

C24_ObserverSeesPublicOnly ==
  /\ \A g \in privateGroups :
       /\ g \notin ObserverGroups
       /\ ObserverGroup(g).status = 404
       /\ \A l \in Limits : ObserverMessages(g, TRUE, l).status = 404
       /\ ObserverMessages(g, FALSE, NULL).status = 404
  /\ \A g \in GroupIds :
       LET listed == ObserverMessages(g, FALSE, NULL).messages
       IN  \A i \in 1..Len(listed) :
             /\ listed[i].groupId \notin privateGroups
             /\ \A preview \in listed[i].replyTo :
                  \A m \in messages :
                    m.id = preview.id => m.groupId \notin privateGroups
\* C25: for every agent, claimed is true exactly when claimToken is null:
\* a registered row is unclaimed with a token, a successful verification
\* sets claimed and nulls the token in one step, and nothing else changes
\* either field.
C25_ClaimedIffNoToken ==
  /\ [](\A agent \in agents : agent.claimed <=> agent.claimToken = NULL)
  /\ [][\A a \in agents : \A b \in agents' :
          a.id = b.id /\ <<a.claimed, a.claimToken>> # <<b.claimed, b.claimToken>>
            => /\ ~a.claimed /\ b.claimed /\ b.claimToken = NULL
               /\ \E h \in TwitterHandles, tweet \in TweetSearch :
                    VerifyClaim(a.claimToken, h, tweet)]_vars

C25_Witness ==
  /\ \E agent \in agents : agent.claimed /\ agent.name = "renamed"
  /\ \E agent \in agents : agent.id > UnknownAgent /\ ~agent.claimed

\* C26: after a successful verification with a token, every later
\* verification with that token is answered "Agent already claimed" and
\* leaves claimedBy as it is.
C26_ReverifyAlreadyClaimed ==
  [][\A token \in ClaimTokens :
       (\E h \in TwitterHandles, tweet \in TweetSearch :
          VerifyClaim(token, h, tweet))
         => \A h \in TwitterHandles \ {<<>>}, tweet \in TweetSearch :
              VerifyOutcome(token, h, tweet)' =
                [status |-> 400, error |-> "Agent already claimed"]]_vars

\* C27: every stored handle matches [a-z0-9_]{1,32}.
C27_HandlePattern ==
  \A agent \in agents :
    /\ Len(agent.handle) \in 1..32
    /\ \A i \in 1..Len(agent.handle) :
         agent.handle[i] \in
           {"a", "b", "c", "d", "e", "f", "g", "h", "i", "j", "k", "l", "m",
            "n", "o", "p", "q", "r", "s", "t", "u", "v", "w", "x", "y", "z",
            "0", "1", "2", "3", "4", "5", "6", "7", "8", "9", "_"}

\* C28: a group message listing never returns more than 100 messages: for
\* every requested limit L it returns at most min(L, 100) messages, oldest
\* first, both for a member and for an observer.
C28_ListingAtMost100 ==
  \A g \in groups, L \in ListLimits :
    \A listing \in {GetMessages(1, g, TRUE, L).messages,
                    ObserverMessages(g, TRUE, L).messages} :
      /\ Len(listing) <= Min(L, MaxLimit)
      /\ \A i \in 1..(Len(listing) - 1) :
           listing[i].createdAt <= listing[i + 1].createdAt

\* C29: from Disabled, when both participants call /disappear with the same
\* value t > 0, one after the other in either order, the first call leaves
\* Proposed(t, caller) and the second leaves Active(t) and sends
\* dm:disappear:enabled to both agents.
C29_MatchingProposalsConfluent ==
  [][\A a \in DmAgents, b \in DmAgents, t \in Timers \ {0} :
       /\ a # b
       => /\ (PairState(a, b) = <<"Disabled">> /\ SetDisappear(a, b, t))
               => PairState(a, b)' = <<"Proposed", t, a>>
          /\ (PairState(a, b) = <<"Proposed", t, a>> /\ SetDisappear(b, a, t))
               => /\ PairState(a, b)' = <<"Active", t>>
                  /\ \A to \in {a, b} :
                       \E i \in 1..Len(emitted') :
                         /\ emitted'[i].to = to
                         /\ emitted'[i].event.type = "dm:disappear:enabled"]_vars

C29_Witness ==
  /\ PairState(1, 2) = <<"Active", 1>>
  /\ emitted = <<DmEvent(2, "dm:disappear:enabled", 1, 1),
                 DmEvent(1, "dm:disappear:enabled", 2, 1)>>

\* C30: two consecutive reads of a direct conversation by the same agent,
\* with nothing in between, return equal payloads: a read leaves the
\* payload of the next read as its own was.
C30_ConsecutiveReadsEqual ==
  [][\A a \in DmAgents, b \in DmTargets :
       ListDM(a, b) => ListDMPayload(a, b)' = ListDMPayload(a, b)]_vars

\* C31: a dm:reaction:removed event goes out only for a removal that
\* deleted a reaction row: a call of the removal that emits the event found
\* the row in the table and leaves the table without it.
C31_DmReactionRemovedAfterDelete ==
  [][\A a \in DmAgents, m \in DmIds, t \in DOMAIN ALLOWED_REACTIONS :
       ( /\ RemoveDmReaction(a, m, ALLOWED_REACTIONS[t])
         /\ \E i \in 1..Len(emitted') :
              emitted'[i].event.type = "dm:reaction:removed" )
         => /\ [messageId |-> m, agentId |-> a,
                emoji |-> ALLOWED_REACTIONS[t]] \in dmReactions
            /\ dmReactions' # dmReactions]_vars

\* C32: a group messaging operation publishes nothing when it changes no
\* durable state: a removal of a reaction that deletes no row delivers no
\* message:reaction:removed to the group's room.
C32_NoEventWithoutChange ==
  [][\A a \in DmAgents, g \in GroupIds, m \in MessageIds :
       ( /\ RemoveReaction(a, g, m, ALLOWED_REACTIONS["like"])
         /\ messageReactions' = messageReactions )
         => inbox' = inbox]_vars

\* C33: a join of a group that is not public creates no membership: no
\* step is a successful join of a private group.
C33_PrivateGroupJoinRefused ==
  [][\A a \in Agents, g \in GroupIds :
       g \in privateGroups => ~JoinGroup(a, g)]_vars

\* C34: the handshake of a socket that sends no token, as the web
\* observer's does, is accepted.
C34_ObserverSocketAccepted ==
  [][\A r \in answered' \ answered :
       r.route = "handshake" /\ r.subject[2] = <<>> => r.status = 200]_vars

\* C35: a connection is delivered a message:new of group G only while its
\* agent is a member of G.
C35_RoomEventsToMembersOnly ==
  [][\A sock \in Sockets :
       Len(inbox'[sock]) > Len(inbox[sock])
         => LET event == inbox'[sock][Len(inbox'[sock])]
            IN  event.type = "message:new"
                  => isMember(event.groupId, socketAgent[sock])]_vars

\* C36: a membership takes the role admin only in the creation of its
\* group, and a membership with the role admin never takes another role, so
\* the admins of a group never gain a member after creation.
C36_AdminsOnlyFromCreation ==
  [][\A g \in GroupIds, a \in Agents :
       /\ getMemberRole(g, a)' = "admin"
            => getMemberRole(g, a) = "admin" \/ g \notin groups
       /\ getMemberRole(g, a) = "admin"
            => getMemberRole(g, a)' \in {"admin", NoRole}]_vars

\* The creator is admin beside a joined member and a member it promoted.
C36_Witness ==
  \E g \in groups, a \in Agents, b \in Agents, c \in Agents :
    /\ getMemberRole(g, a) = "admin"
    /\ getMemberRole(g, b) = "moderator"
    /\ getMemberRole(g, c) = "member"
    /\ \A d \in Agents \ {a} : getMemberRole(g, d) # "admin"

\* C37: in every dm_conversations row, under any interleaving of the two
\* participants' calls of /disappear, disappearTimerPendingApproval is true
\* exactly when disappearTimerProposedValue and disappearTimerProposedBy are
\* both set.
C37_PendingIffProposal ==
  \A c \in dmConversations :
    c.disappearTimerPendingApproval
      <=> ( /\ c.disappearTimerProposedValue # NULL
            /\ c.disappearTimerProposedBy # NULL )

\* C38: whenever an agent has an attached connection and none of its
\* connection or disconnect handlers is in progress, the agent is online.
C38_OnlineWhileConnected ==
  \A a \in Agents :
    ( /\ \E sock \in Sockets : socketAgent[sock] = a
      /\ \A req \in attaching : req.agentId # a
      /\ \A req \in leaving : req.agentId # a )
      => a \in isOnline

\* C39: no unclaimed agent has an agent_badges row with the slug verified.
C39_VerifiedOnlyIfClaimed ==
  \A row \in agentBadges :
    row.badgeSlug = "verified"
      => \E agent \in agents : agent.id = row.agentId /\ agent.claimed

\* C40: a send of a direct message that is rejected stores no message,
\* creates no dm_conversations row and emits no dm:new.
C40_RejectedSendChangesNothing ==
  [][\A a \in DmAgents, b \in DmTargets, c \in Contents,
        r \in {NULL} \cup DmIds :
       (SendDM(a, b, c, r) /\ nextDmId' = nextDmId)
         => /\ directMessages' = directMessages
            /\ dmConversations' = dmConversations
            /\ inbox' = inbox
            /\ emitted' = <<>>]_vars

====
